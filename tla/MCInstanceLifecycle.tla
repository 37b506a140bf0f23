------------------------ MODULE MCInstanceLifecycle ------------------------
(* Small instances of InstanceLifecycle: a few instances made in turn or at *)
(* once, over fewer addresses than instances so that addresses are reused.  *)
EXTENDS InstanceLifecycle
=============================================================================
