--------------------------- MODULE MCDeviceDemos ----------------------------
(* The four programs on a host with up to two networks.                    *)
EXTENDS DeviceDemos
=============================================================================
