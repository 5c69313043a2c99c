------------------------ MODULE MCTranslationSupervisor ------------------------
(* Small instances of TranslationSupervisor for TLC. *)
EXTENDS TranslationSupervisor, TLC

CONSTANTS t1, t2, s1, s2

\* A Mattermost archive and a Slack export, stored at once.
TwoType == t1 :> "mattermost" @@ t2 :> "slack"
TwoCreateAt == t1 :> 1 @@ t2 :> 1
================================================================================
