--------------------------- MODULE InstallationConfig --------------------------
(***************************************************************************)
(* What an import changes in the configuration of its installation: the    *)
(* size and two environment variables that are overridden while the        *)
(* import runs, in internal/supervisor/import.go.  An environment maps     *)
(* variables to values; a variable that is not set has the value Unset,    *)
(* which is how the code reads a key that is missing from a Go map.        *)
(***************************************************************************)

Unset == "unset"

\* The value of a variable during imports; its other values are one "custom".
ForImport == "for-import"

S3Timeout == "S3RequestTimeout"
ExtractContent == "ExtractContent"

EnvKeys == {S3Timeout, ExtractContent}
Env == [EnvKeys -> {Unset, ForImport, "custom"}]

Size1000 == "1000users"
SizeCloud10 == "cloud10users"

Configs == [Size          : {Size1000, SizeCloud10, "100users"},
            PriorityEnv   : Env,
            MattermostEnv : Env]

\* A patch: the size to change to, if any; whether its PriorityEnv is the
\* empty map, which clears all variables; or the variables it overrides.
Keep == "keep"

Patches == [Size     : {Size1000, SizeCloud10, Keep},
            Clear    : BOOLEAN,
            Override : SUBSET EnvKeys]

NilPatch == [Size |-> Keep, Clear |-> FALSE, Override |-> {}]

--------------------------------------------------------------------------------

getInstallationEnvValue(config, key) ==
    IF config.PriorityEnv[key] # Unset
    THEN config.PriorityEnv[key]
    ELSE config.MattermostEnv[key]

OverrideTimeoutOnly(config) ==                         \* mutant
    {k \in {S3Timeout} : getInstallationEnvValue(config, k) # ForImport}

\* The variables that the pre-import patch has to override.
ToOverride(config) ==
    {k \in EnvKeys : getInstallationEnvValue(config, k) # ForImport}

getPreImportPatch(config) ==
    [Size     |-> IF config.Size # Size1000 THEN Size1000 ELSE Keep,
     Clear    |-> FALSE,
     Override |-> ToOverride(config)]

TimeoutOverridden(config) ==                           \* mutant
    config.PriorityEnv[S3Timeout] = ForImport

Overridden(config) == \E k \in EnvKeys : config.PriorityEnv[k] = ForImport

PostPatchOfSize(config) ==                             \* mutant
    [NilPatch EXCEPT !.Size = IF config.Size = Size1000 THEN SizeCloud10 ELSE Keep]

\* All priority variables are cleared, those of the customer included.
getPostImportPatch(config) ==
    [Size     |-> IF config.Size = Size1000 THEN SizeCloud10 ELSE Keep,
     Clear    |-> Overridden(config),
     Override |-> {}]

\* The check of transitionImportInstallationPreAdjustment.
AdjustedForImport(config) ==
    /\ config.Size = Size1000
    /\ config.PriorityEnv[S3Timeout] = ForImport
    /\ config.PriorityEnv[ExtractContent] = ForImport

\* The check of transitionImportInstallationPostAdjustment.
RevertedAfterImport(config) ==
    /\ config.Size # Size1000
    /\ config.PriorityEnv[S3Timeout] # ForImport

\* The Cloud API applies a patch (external): an empty map clears the priority
\* variables, any other is merged into them.
ApplyPatch(config, patch) ==
    [config EXCEPT
        !.Size = IF patch.Size = Keep THEN @ ELSE patch.Size,
        !.PriorityEnv = [k \in EnvKeys |->
            IF patch.Clear THEN Unset
            ELSE IF k \in patch.Override THEN ForImport ELSE @[k]]]

\* An installation on which an import may run.
FitForImport(config) ==
    /\ config.Size = Size1000
    /\ \A k \in EnvKeys : getInstallationEnvValue(config, k) = ForImport
================================================================================
