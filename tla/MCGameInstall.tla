---- MODULE MCGameInstall ----
\* Selections the install page can offer: nothing, the loaders that may be
\* combined, and a loader with its API.  Quilt's tasks are copies of Fabric's.
EXTENDS GameInstall

Combinations == {
  {},
  {"liteLoader", "forgeDownload", "forgeInstall", "optifineDownload", "optifineInstall"},
  {"fabric", "fabricAPI"},
  {"quilt", "quiltAPI"} }
====
