---------------------------- MODULE MCArchiveUpload ----------------------------
(* Small instances of ArchiveUpload for TLC. *)
EXTENDS ArchiveUpload, TLC

CONSTANTS a1, a2, a3, r1, r2, r3, r4, r5

\* a1 and a2 are uploaded, as Mattermost and Slack exports; a3 is in the
\* bucket, and two requests for it race.  r5 names a2 without its upload, and may
\* come before it is stored.
MixedUploadType == a1 :> "mattermost" @@ a2 :> "slack" @@ a3 :> "slack"
MixedArchive == r1 :> a1 @@ r2 :> a2 @@ r3 :> a3 @@ r4 :> a3
                @@ r5 :> a2
OneTypeEach == r1 :> "mattermost" @@ r2 :> "slack" @@ r3 :> "mattermost"
               @@ r4 :> "mattermost" @@ r5 :> "slack"

\* The racing requests take a3 for exports of different kinds.
TwoTypes == r1 :> "mattermost" @@ r2 :> "slack"
            @@ r3 :> "slack" @@ r4 :> "mattermost" @@ r5 :> "slack"
================================================================================
