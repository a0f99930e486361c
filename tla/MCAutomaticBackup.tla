------------------------- MODULE MCAutomaticBackup -------------------------
(* The instance of AutomaticBackup in which nothing is disturbed, a guild is *)
(* joined in the end, a window has as many polls as it may have backups, and *)
(* every other poll reconciles, so that none finds all roots clean.          *)
EXTENDS AutomaticBackup

Undisturbed ==
    \/ PollInFlight \/ PollWaits \/ PollWithoutGuild \/ PollScan
    \/ Submit \/ AcceptCheckpoint \/ JoinGuild \/ Tick
    \/ \E r \in Roots : Certify(r) \/ CompleteJob(r)
    \/ \E r \in Noisy : Change(r) \/ Remark(r)

JoinedSpec == Init /\ [][Undisturbed]_vars /\ Fairness /\ <>guild

=============================================================================
