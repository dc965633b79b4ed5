---------------------------- MODULE MCLaunchCheck ----------------------------
EXTENDS LaunchCheck

\* One account of each kind that needs the network
OnlineTypes == <<"yggdrasil", "microsoft">>
MixedTypes == <<"yggdrasil", "offline">>
=============================================================================
