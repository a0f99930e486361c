---------------------- MODULE MCAutomaticBackupHistory ----------------------
(* The instance of AutomaticBackupHistory: the scheduler together with a     *)
(* record of when each root was last protected.                              *)
EXTENDS AutomaticBackupHistory

=============================================================================
