-------------------------- MODULE MCImportSupervisor ---------------------------
(* Small instances of ImportSupervisor for TLC. *)
EXTENDS ImportSupervisor, TLC

CONSTANTS i1, i2, t1, t2, n1, n2, s1, s2, p1, p2

Env2(timeout, extract) == (S3Timeout :> timeout) @@ (ExtractContent :> extract)

Config(size, priority, mattermost) ==
    [Size |-> size, PriorityEnv |-> priority, MattermostEnv |-> mattermost]

NewInstallation ==
    Config(SizeCloud10, Env2(Unset, Unset), Env2(Unset, Unset))

\* Fresh installations only.
FreshConfigs == [n \in Installations |-> {NewInstallation}]

Unlocked == [n \in Installations |-> FALSE]
OneLocked == n1 :> FALSE @@ n2 :> TRUE

\* Each import has a translation and an installation of its own ...
OneTranslation == i1 :> t1
OneInstallation == t1 :> n1
OwnTranslation == i1 :> t1 @@ i2 :> t2
OwnInstallation == t1 :> n1 @@ t2 :> n2
\* ... or two translations are imported into one installation.
SharedInstallation == t1 :> n1 @@ t2 :> n1

OneCreateAt == i1 :> 1
TwoCreateAt == i1 :> 1 @@ i2 :> 2
================================================================================
