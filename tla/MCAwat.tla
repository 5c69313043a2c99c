--------------------------------- MODULE MCAwat --------------------------------
(* Small instances of Awat for TLC. *)
EXTENDS Awat, TLC

CONSTANTS i1, i2, t1, t2, n1, n2, s1, p1, a1, w1

\* t1 is a Slack export that its client uploads; t2 restarts the import of its
\* output, as a Mattermost archive, into an installation of its own.
PipelineType == t1 :> "slack" @@ t2 :> "mattermost"
PipelineUploadType == a1 :> "slack" @@ t1 :> "mattermost" @@ t2 :> "mattermost"
PipelineArchive == t1 :> a1 @@ t2 :> t1
PipelineExport == t1 :> {"users", "posts", "attachments"} @@ t2 :> {}
PipelineTime == t1 :> 1 @@ t2 :> 1
PipelineImport == i1 :> t1 @@ i2 :> t2
PipelineInstallation == t1 :> n1 @@ t2 :> n2
PipelineCreateAt == i1 :> 1 @@ i2 :> 1
AllLocked == [n \in Installations |-> TRUE]

Env2(timeout, extract) == (S3Timeout :> timeout) @@ (ExtractContent :> extract)

Config(size, priority, mattermost) ==
    [Size |-> size, PriorityEnv |-> priority, MattermostEnv |-> mattermost]

NewInstallation ==
    Config(SizeCloud10, Env2(Unset, Unset), Env2(Unset, Unset))

\* n1 needs a part of the adjustments and has an override of its customer's; n2
\* is new and needs all.
MixedConfigs ==
    n1 :> {Config("100users", Env2("custom", Unset), Env2(Unset, ForImport)),
           Config(Size1000, Env2(Unset, "custom"), Env2(ForImport, ForImport))}
    @@ n2 :> {NewInstallation}
================================================================================
