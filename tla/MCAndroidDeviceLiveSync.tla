----------------------- MODULE MCAndroidDeviceLiveSync -----------------------
(* Instances of AndroidDeviceLiveSync.                                     *)
EXTENDS AndroidDeviceLiveSync

=============================================================================
