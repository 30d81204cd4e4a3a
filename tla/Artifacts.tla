----------------------------- MODULE Artifacts -----------------------------
(***************************************************************************)
(* The way of a release tarball: from the path the operator names into the *)
(* artifact store (artifacts.py:37), and from there to the robots that     *)
(* hold a token of module Bootstrap (app.py:267, secure_update.py:51).     *)
(* A file is the sequence of its two blocks, a block the build it is from, *)
(* so << >> is no file and <<b>> a copy that is not finished.  A sha256    *)
(* and a signature are the file they are of.                               *)
(***************************************************************************)
EXTENDS Bootstrap, Sequences

CONSTANTS
    Release,        \* release ids
    MaxBuild        \* bound: how often the tarball of a release is built

ASSUME ArtifactsAssumption == MaxBuild \in Nat \ {0}

VARIABLES
    source,     \* source[k]: the build that lies at artifact_path
    ingest,     \* ingest[k]: the handler that creates release k
    shelf,      \* shelf[k]: the tarball in the artifact store, and its row
    down,       \* down[r]: the download of robot r
    disk        \* disk[r]: its artifact directory

shopVars == <<source, ingest, shelf>>
artVars  == <<source, ingest, shelf, down, disk>>
vars     == <<bootVars, artVars>>

Build      == 1..MaxBuild
Tarball(b) == <<b, b>>
File       == {<< >>} \cup {<<b>> : b \in Build} \cup (Build \X Build)

Ingest   == [step: {"none", "created", "hashed", "copying", "copied", "done", "failed"},
             sha: File, sig: File]
Shelf    == [file: File, sha: File, sig: File]
Download == [step: {"idle", "sent", "admitted", "headers", "body"},
             release: Release, presented: Token, sha: File, sig: File]
Disk     == [part: BOOLEAN, orphan: BOOLEAN, final: [Release -> File]]

ArtifactsTypeOK ==
    /\ BootstrapTypeOK
    /\ source \in [Release -> Build]
    /\ ingest \in [Release -> Ingest]
    /\ shelf \in [Release -> Shelf]
    /\ down \in [Robot -> Download]
    /\ disk \in [Robot -> Disk]

ArtifactsInit ==
    /\ BootstrapInit
    /\ source = [k \in Release |-> 1]
    /\ ingest = [k \in Release |-> [step |-> "none", sha |-> << >>, sig |-> << >>]]
    /\ shelf = [k \in Release |-> [file |-> << >>, sha |-> << >>, sig |-> << >>]]
    /\ \E k \in Release :
          down = [r \in Robot |-> [step |-> "idle", release |-> k, presented |-> NoToken,
                                   sha |-> << >>, sig |-> << >>]]
    /\ disk = [r \in Robot |-> [part |-> FALSE, orphan |-> FALSE,
                                final |-> [k \in Release |-> << >>]]]

-----------------------------------------------------------------------------
(* create_release with an artifact_path.                                   *)

IngestGoes(k, from, to) ==
    /\ ingest[k].step = from
    /\ ingest' = [ingest EXCEPT ![k].step = to]

(* The operator signs what it has built, or sends no signature.            *)
CreateRelease(k) ==
    /\ ingest[k].step = "none"
    /\ \E sig \in {<< >>, Tarball(source[k])} :
          ingest' = [ingest EXCEPT ![k] = [step |-> "created", sha |-> << >>, sig |-> sig]]
    /\ UNCHANGED <<source, shelf>>

HashSource(k) ==
    /\ ingest[k].step = "created"
    /\ ingest' = [ingest EXCEPT ![k].step = "hashed", ![k].sha = Tarball(source[k])]
    /\ UNCHANGED <<source, shelf>>

(* A mutant of CopyBlock: the copy goes on appending.                      *)
CopyBlockTwice(k) ==
    /\ \/ IngestGoes(k, "hashed", "copying")
       \/ IngestGoes(k, "copying", "copying")
       \/ IngestGoes(k, "copying", "copied")
    /\ shelf' = [shelf EXCEPT ![k].file = Append(@, source[k])]
    /\ UNCHANGED source

CopyBlock(k) ==
    /\ \/ IngestGoes(k, "hashed", "copying")
       \/ IngestGoes(k, "copying", "copied")
    /\ shelf' = [shelf EXCEPT ![k].file = Append(@, source[k])]
    /\ UNCHANGED source

(* A mutant of SetReleaseArtifact: the row is written before the end of    *)
(* the copy.                                                               *)
SetBeforeCopied(k) ==
    /\ IngestGoes(k, "copying", "done")
    /\ shelf' = [shelf EXCEPT ![k].sha = ingest[k].sha, ![k].sig = ingest[k].sig]
    /\ UNCHANGED source

(* set_release_artifact. *)
SetReleaseArtifact(k) ==
    /\ IngestGoes(k, "copied", "done")
    /\ shelf' = [shelf EXCEPT ![k].sha = ingest[k].sha, ![k].sig = ingest[k].sig]
    /\ UNCHANGED source

(* The path is written again at any time.                                  *)
Rebuild(k) ==
    /\ source[k] < MaxBuild
    /\ source' = [source EXCEPT ![k] = @ + 1]
    /\ UNCHANGED <<ingest, shelf>>

(* No such path, no space left: what was copied stays.                     *)
IngestFails(k) ==
    /\ Fault({})
    /\ ingest[k].step \in {"created", "hashed", "copying", "copied"}
    /\ ingest' = [ingest EXCEPT ![k].step = "failed"]
    /\ UNCHANGED <<source, shelf>>

-----------------------------------------------------------------------------
(* download_and_verify, and the handler that serves it.  The agent does    *)
(* nothing else meanwhile.                                                 *)

StartDownload(r, k) ==
    /\ agents[r].at = "poll" /\ Admits(r, agents[r].token)
    /\ ingest[k].step # "none"
    /\ agents' = [agents EXCEPT ![r].at = "busy"]
    /\ down' = [down EXCEPT ![r] = [step |-> "sent", release |-> k, sha |-> << >>,
                                    sig |-> << >>, presented |-> agents[r].token]]
    /\ UNCHANGED <<disk, rows, issued, requests, operator, hurt, faults, shopVars>>

(* The download ends, well or not: the finally clause.                     *)
Idle(d) == [step |-> "idle", release |-> d.release, presented |-> NoToken,
            sha |-> << >>, sig |-> << >>]

Finish(r) ==
    /\ down' = [down EXCEPT ![r] = Idle(@)]
    /\ agents' = [agents EXCEPT ![r].at = "loop"]

(* require_any_robot: a token of any robot will do.                        *)
Belongs(token) == token # NoToken /\ \E q \in Robot : rows[q].token_hash = token

RequireAnyRobot(r) ==
    /\ down[r].step = "sent"
    /\ IF Belongs(down[r].presented)
       THEN down' = [down EXCEPT ![r].step = "admitted"] /\ UNCHANGED agents
       ELSE Finish(r)
    /\ UNCHANGED disk

(* A mutant of GetReleaseArtifact: the signature is not served.            *)
ServeUnsigned(r) ==
    LET s == shelf[down[r].release] IN
    /\ down[r].step = "admitted"
    /\ IF s.sha # << >> /\ s.file # << >>
       THEN down' = [down EXCEPT ![r].step = "headers", ![r].sha = s.sha] /\ UNCHANGED agents
       ELSE Finish(r)
    /\ UNCHANGED disk

(* get_release_artifact, and 404 if there is no checksum or no file.       *)
GetReleaseArtifact(r) ==
    LET s == shelf[down[r].release] IN
    /\ down[r].step = "admitted"
    /\ IF s.sha # << >> /\ s.file # << >>
       THEN /\ down' = [down EXCEPT ![r].step = "headers", ![r].sha = s.sha,
                                    ![r].sig = s.sig]
            /\ UNCHANGED agents
       ELSE Finish(r)
    /\ UNCHANGED disk

OpenPart(r) ==
    /\ down[r].step = "headers"
    /\ down' = [down EXCEPT ![r].step = "body"]
    /\ disk' = [disk EXCEPT ![r].part = TRUE]
    /\ UNCHANGED agents

(* A mutant of Verified: only a signature that was sent is checked.        *)
VerifiedIfSigned(data, sha, sig) == sha # << >> /\ data = sha /\ sig \in {<< >>, data}

(* verify_artifact_bytes. *)
Verified(data, sha, sig) == sha # << >> /\ data = sha /\ sig # << >> /\ data = sig

(* The body is stored and read again; os.replace or an exception, and the  *)
(* finally clause.                                                         *)
Land(r, data) ==
    /\ down[r].step = "body"
    /\ disk' = [disk EXCEPT ![r].part = FALSE, ![r].final[down[r].release] =
                   IF Verified(data, down[r].sha, down[r].sig) THEN data ELSE @]
    /\ Finish(r)

Body(r) == shelf[down[r].release].file

DownloadStep(r) ==
    RequireAnyRobot(r) \/ GetReleaseArtifact(r) \/ OpenPart(r) \/ Land(r, Body(r))

(* The body ends early, unnoticed, or the download raises.                 *)
CutBody(r) == Fault({r}) /\ Land(r, SubSeq(Body(r), 1, 1))

(* A mutant of Cleaned: no finally clause.                                 *)
LeftBehind(broken) ==
    /\ down' = [r \in Robot |-> IF r \in broken THEN Idle(down[r]) ELSE down[r]]
    /\ UNCHANGED disk

Cleaned(broken) ==
    /\ down' = [r \in Robot |-> IF r \in broken THEN Idle(down[r]) ELSE down[r]]
    /\ disk' = [r \in Robot |-> IF r \in broken THEN [disk[r] EXCEPT !.part = FALSE]
                                ELSE disk[r]]

BreakOff(r) ==
    /\ Fault({r})
    /\ down[r].step # "idle"
    /\ Cleaned({r})
    /\ agents' = [agents EXCEPT ![r].at = "loop"]

-----------------------------------------------------------------------------
(* Both modules together.                                                  *)

(* A process that is killed runs no finally clause.                        *)
Killed(r) ==
    /\ down' = [down EXCEPT ![r] = Idle(@)]
    /\ disk' = [disk EXCEPT ![r].part = FALSE, ![r].orphan = @ \/ disk[r].part]
    /\ UNCHANGED shopVars

Boots(r) == (StartAgent(r) \/ Reprovision(r)) /\ Killed(r)

Downloading == {r \in Robot : down[r].step # "idle"}

ServerStops ==
    /\ RestartServer(Downloading)
    /\ Cleaned(Downloading)
    /\ ingest' = [k \in Release |-> IF ingest[k].step \in {"none", "done"} THEN ingest[k]
                                    ELSE [ingest[k] EXCEPT !.step = "failed"]]
    /\ UNCHANGED <<source, shelf>>

HandlersOf(r, kind, waited) ==
    /\ \E c \in RequestsOf(r) :
          c.kind = kind /\ (c.gone = 0) = waited /\ (HandlerStep(c) \/ Answer(c))
    /\ UNCHANGED artVars

AgentLoop(r) == (Heartbeat(r) \/ PollNothing(r)) /\ UNCHANGED artVars

IngestStep(k) ==
    /\ HashSource(k) \/ CopyBlock(k) \/ SetReleaseArtifact(k)
    /\ UNCHANGED <<bootVars, down, disk>>

DownloadMoves(r) ==
    /\ DownloadStep(r)
    /\ UNCHANGED <<rows, issued, requests, operator, hurt, faults, shopVars>>

OperatorStep ==
    \/ \E r \in Robot : Register(r) /\ UNCHANGED artVars
    \/ \E k \in Release : /\ CreateRelease(k) \/ Rebuild(k)
                          /\ UNCHANGED <<bootVars, down, disk>>

FaultStep ==
    \/ ServerStops
    \/ \E r \in Robot : RestartAgent(r) /\ Killed(r)
    \/ \E c \in requests : GiveUp(c) /\ UNCHANGED artVars
    \/ \E k \in Release :
          IngestFails(k) /\ UNCHANGED <<rows, issued, requests, agents, operator, down, disk>>
    \/ \E r \in Robot : /\ CutBody(r) \/ BreakOff(r)
                        /\ UNCHANGED <<rows, issued, requests, operator, shopVars>>

Next ==
    \/ \E r \in Robot :
          \/ \E kind \in {"heartbeat", "register"}, waited \in BOOLEAN :
                HandlersOf(r, kind, waited)
          \/ AgentLoop(r) \/ Boots(r) \/ DownloadMoves(r)
          \/ \E k \in Release : StartDownload(r, k)
    \/ \E k \in Release : IngestStep(k)
    \/ OperatorStep \/ FaultStep

Spec == ArtifactsInit /\ [][Next]_vars

(* The control plane is up and serves what it got, and agents loop for     *)
(* ever; the operator is under no obligation.                              *)
Fairness ==
    /\ \A r \in Robot :
          /\ WF_vars(HandlersOf(r, "heartbeat", TRUE)) /\ WF_vars(HandlersOf(r, "register", TRUE))
          /\ WF_vars(HandlersOf(r, "heartbeat", FALSE)) /\ WF_vars(HandlersOf(r, "register", FALSE))
          /\ WF_vars(AgentLoop(r)) /\ WF_vars(DownloadMoves(r))

FairSpec == Spec /\ Fairness

-----------------------------------------------------------------------------
(* Properties. *)

Accepted(r) == agents[r].token # NoToken /\ agents[r].token = rows[r].token_hash

(* A running agent that the control plane refuses has met a fault, or a    *)
(* registration after its start, or the answer with its token is on its    *)
(* way: app.py:145 tells the token once, and stores nothing else.          *)
LockedOutOnlyByFault ==
    \A r \in Robot :
       Up(r) =>
          \/ rows[r].token_hash \in {NoToken, agents[r].token}
          \/ \E c \in RequestsOf(r) : c.gone = 0 /\ c.token = rows[r].token_hash
          \/ r \in hurt \/ operator[r].late

(* What lies in a robot's artifact directory under its final name is a     *)
(* whole build that the operator signed for that release.                  *)
LandedVerified ==
    \A r \in Robot, k \in Release :
       disk[r].final[k] # << >> =>
          disk[r].final[k] = ingest[k].sig /\ Len(disk[r].final[k]) = 2

(* A checksum on record belongs to a copy that is complete, and that is of *)
(* the build that was hashed unless the path was written meanwhile.        *)
ServedWhole ==
    \A k \in Release :
       shelf[k].sha # << >> =>
          /\ Len(shelf[k].file) = 2
          /\ shelf[k].file = shelf[k].sha \/ shelf[k].sha # Tarball(source[k])

(* A temporary file belongs to a running download; only a kill leaves one. *)
PartsHaveOwners ==
    \A r \in Robot : disk[r].part => down[r].step = "body"

(* An agent that was started gets to hold the token on record.             *)
Bootstraps ==
    \A r \in Robot : Up(r) ~> (Accepted(r) \/ r \in hurt \/ operator[r].late)

(* A registration overwrites the version of a known robot with the default *)
(* (app.py:182).  A running agent whose token is on record mends it; one   *)
(* that the registration shut out cannot.                                  *)
VersionRecovers ==
    \A r \in Robot :
       (Up(r) /\ Accepted(r))
          ~> (rows[r].current_version = "own" \/ ~Accepted(r) \/ r \in hurt)

Good(k) == shelf[k].sha # << >> /\ shelf[k].sha = shelf[k].sig /\ shelf[k].file = shelf[k].sha

(* A download of a complete, signed tarball by a robot with a valid token  *)
(* ends with the tarball in place.                                         *)
Delivered ==
    \A r \in Robot, k \in Release :
       (down[r].step = "sent" /\ down[r].release = k /\ Good(k) /\ Accepted(r))
          ~> (disk[r].final[k] # << >> \/ r \in hurt \/ operator[r].late)
=============================================================================
