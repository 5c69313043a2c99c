-------------------------- MODULE MCSlackTranslation ---------------------------
(* Small instances of SlackTranslation for TLC. *)
EXTENDS SlackTranslation, TLC

CONSTANTS t1, t2, t3, s1

\* A Slack export, a Mattermost archive of its age, and a type that no
\* translator knows.
MixedType == t1 :> "slack" @@ t2 :> "mattermost" @@ t3 :> "discord"
MixedCreateAt == t1 :> 1 @@ t2 :> 1 @@ t3 :> 2
MixedExport == t1 :> Parts @@ t2 :> {} @@ t3 :> {}
================================================================================
