-------------------------- MODULE ArtifactsProofs --------------------------
(* What holds of every tarball, download and token, for any number of      *)
(* robots, releases, builds, registrations and faults.                     *)
EXTENDS Artifacts, SequenceTheorems, FiniteSetTheorems, TLAPS

-----------------------------------------------------------------------------
(* The shop: the handlers that ingest a tarball.                           *)

ShopTypeOK ==
    /\ source \in [Release -> Build]
    /\ ingest \in [Release -> Ingest]
    /\ shelf \in [Release -> Shelf]

Signature(k) ==
    LET sig == ingest[k].sig IN
    /\ sig # << >> => \E b \in Build : sig = Tarball(b)
    /\ ingest[k].step = "none" => sig = << >>
    /\ shelf[k].sig # << >> => shelf[k].sig = sig

(* The build hashed, and those of the blocks copied, in that order. *)
Ladder(k) ==
    LET step == ingest[k].step IN
    /\ step \in {"none", "created", "hashed"} => shelf[k].file = << >>
    /\ step = "hashed" => \E b \in 1..source[k] : ingest[k].sha = Tarball(b)
    /\ step = "copying" =>
          \E b, c \in 1..source[k] :
             b <= c /\ ingest[k].sha = Tarball(b) /\ shelf[k].file = <<c>>
    /\ step \in {"copied", "done"} =>
          \E b, c, d \in 1..source[k] :
             b <= c /\ c <= d /\ ingest[k].sha = Tarball(b) /\ shelf[k].file = <<c, d>>
    /\ shelf[k].sha = IF step = "done" THEN ingest[k].sha ELSE << >>

ShopInv == ShopTypeOK /\ \A k \in Release : Signature(k) /\ Ladder(k)

(* A signature that an operator sent is never replaced. *)
SignaturesStay ==
    \A k \in Release : ingest[k].sig # << >> => ingest'[k].sig = ingest[k].sig

LEMMA Files ==
    /\ << >> \in File
    /\ \A b \in Build : <<b>> \in File /\ Tarball(b) \in File
    /\ \A b, c \in Build : <<b, c>> \in File
    /\ \A b \in Build : Append(<< >>, b) = <<b>>
    /\ \A b, c \in Build : Append(<<b>>, c) = <<b, c>>
    /\ \A b, c \in Build : Len(<<b, c>>) = 2 /\ <<b, c>> # << >> /\ <<b>> # << >>
  <1>1. << >> \in File /\ \A b \in Build : <<b>> \in File /\ Tarball(b) \in File
    BY SMT DEF File, Tarball
  <1>2. \A b, c \in Build : <<b, c>> \in File
    BY DEF File
  <1>3. \A b \in Build : Append(<< >>, b) = <<b>>
    <2> TAKE b \in Build
    <2>1. << >> \in Seq(Build) /\ <<b>> \in Seq(Build) /\ Len(<< >>) = 0
      OBVIOUS
    <2>2. Append(<< >>, b) \in Seq(Build) /\ Len(Append(<< >>, b)) = 1
      BY <2>1
    <2>3. Append(<< >>, b)[1] = b
      BY <2>1
    <2> QED
      BY <2>1, <2>2, <2>3
  <1>4. \A b, c \in Build : Append(<<b>>, c) = <<b, c>>
    <2> TAKE b, c \in Build
    <2>1. <<b>> \in Seq(Build) /\ <<b, c>> \in Seq(Build)
      OBVIOUS
    <2>2. Len(<<b>>) = 1 /\ <<b>>[1] = b
      OBVIOUS
    <2>3. Len(<<b, c>>) = 2 /\ <<b, c>>[1] = b /\ <<b, c>>[2] = c
      OBVIOUS
    <2>4. /\ Append(<<b>>, c) \in Seq(Build) /\ Len(Append(<<b>>, c)) = 2
          /\ Append(<<b>>, c)[1] = b /\ Append(<<b>>, c)[2] = c
      BY <2>1, <2>2, AppendProperties
    <2>5. \A i \in 1..2 : Append(<<b>>, c)[i] = <<b, c>>[i]
      BY <2>3, <2>4
    <2>6. \A s, t \in Seq(Build) :
             Len(s) = Len(t) /\ (\A i \in 1..Len(s) : s[i] = t[i]) => s = t
      BY SeqEqual
    <2> DEFINE s == Append(<<b>>, c)
               t == <<b, c>>
    <2>7. s \in Seq(Build) /\ t \in Seq(Build) /\ Len(s) = 2 /\ Len(t) = 2
          /\ \A i \in 1..2 : s[i] = t[i]
      BY <2>1, <2>3, <2>4, <2>5
    <2> HIDE DEF s, t
    <2>8. s = t
      BY <2>6, <2>7
    <2> QED
      BY <2>8 DEF s, t
  <1>5. \A b, c \in Build : Len(<<b, c>>) = 2 /\ <<b, c>> # << >> /\ <<b>> # << >>
    OBVIOUS
  <1> QED
    BY <1>1, <1>2, <1>3, <1>4, <1>5


(* One release at a time. *)
LEMMA OneRelease ==
    ASSUME ShopInv, NEW k \in Release,
           \A j \in Release \ {k} :
              source'[j] = source[j] /\ ingest'[j] = ingest[j] /\ shelf'[j] = shelf[j],
           ShopTypeOK', Signature(k)', Ladder(k)',
           ingest[k].sig # << >> => ingest'[k].sig = ingest[k].sig
    PROVE  ShopInv' /\ SignaturesStay
  <1>1. ASSUME NEW j \in Release \ {k} PROVE Signature(j)' /\ Ladder(j)'
    BY <1>1 DEF ShopInv, Signature, Ladder
  <1>2. \A j \in Release : Signature(j)' /\ Ladder(j)'
    BY <1>1
  <1> QED
    BY <1>2 DEF ShopInv, SignaturesStay

LEMMA CreateReleaseKeeps ==
    ASSUME ShopInv, NEW k \in Release, CreateRelease(k)
    PROVE  ShopInv' /\ SignaturesStay
  <1>1. PICK sig \in {<< >>, Tarball(source[k])} :
           ingest' = [ingest EXCEPT ![k] = [step |-> "created", sha |-> << >>, sig |-> sig]]
    BY DEF CreateRelease
  <1>2. ingest'[k] = [step |-> "created", sha |-> << >>, sig |-> sig] /\ ingest[k].step = "none"
        /\ source' = source /\ shelf' = shelf
    BY <1>1 DEF ShopInv, ShopTypeOK, CreateRelease
  <1>3. source[k] \in Build /\ sig \in File /\ << >> \in File
    BY Files DEF ShopInv, ShopTypeOK
  <1>4. ingest'[k] \in Ingest
    BY <1>2, <1>3 DEF Ingest
  <1>5. ShopTypeOK'
    BY <1>1, <1>2, <1>4 DEF ShopInv, ShopTypeOK
  <1>6. Signature(k)'
    BY <1>2, <1>3, Files DEF ShopInv, Signature
  <1>7. Ladder(k)'
    BY <1>2 DEF ShopInv, Ladder
  <1>8. ingest[k].sig = << >>
    BY <1>2 DEF ShopInv, Signature
  <1> QED
    BY <1>1, <1>2, <1>5, <1>6, <1>7, <1>8, OneRelease DEF ShopInv, ShopTypeOK

LEMMA HashSourceKeeps ==
    ASSUME ShopInv, NEW k \in Release, HashSource(k)
    PROVE  ShopInv' /\ SignaturesStay
  <1>1. ingest[k] \in Ingest /\ source[k] \in Build /\ Tarball(source[k]) \in File
    BY Files DEF ShopInv, ShopTypeOK
  <1>2. ingest[k].step = "created" /\ source' = source /\ shelf' = shelf
    BY DEF HashSource
  <1>3. ingest'[k] = [step |-> "hashed", sha |-> Tarball(source[k]), sig |-> ingest[k].sig]
    BY <1>1 DEF HashSource, ShopInv, ShopTypeOK, Ingest
  <1>4. ingest'[k] \in Ingest
    BY <1>1, <1>3 DEF Ingest
  <1>5. ShopTypeOK'
    BY <1>2, <1>4 DEF HashSource, ShopInv, ShopTypeOK
  <1>6. Signature(k)'
    BY <1>2, <1>3 DEF ShopInv, Signature
  <1>7. source[k] \in 1..source[k]
    BY <1>1 DEF Build
  <1>8. Ladder(k)'
    BY <1>2, <1>3, <1>7 DEF ShopInv, Ladder
  <1> QED
    BY <1>2, <1>3, <1>5, <1>6, <1>8, OneRelease DEF HashSource, ShopInv, ShopTypeOK

LEMMA CopyBlockKeeps ==
    ASSUME ShopInv, NEW k \in Release, CopyBlock(k)
    PROVE  ShopInv' /\ SignaturesStay
  <1>1. /\ ingest[k] \in Ingest /\ shelf[k] \in Shelf /\ source[k] \in Build
        /\ Signature(k) /\ Ladder(k)
    BY DEF ShopInv, ShopTypeOK
  <1>2. source' = source /\ shelf' = [shelf EXCEPT ![k].file = Append(@, source[k])]
    BY DEF CopyBlock
  <1>3. source[k] \in 1..source[k] /\ source[k] \in Nat /\ 1..source[k] \subseteq Build
    BY <1>1, ArtifactsAssumption DEF Build
  <1>4. CASE IngestGoes(k, "hashed", "copying")
    <2>1. ingest[k].step = "hashed" /\ ingest' = [ingest EXCEPT ![k].step = "copying"]
      BY <1>4 DEF IngestGoes
    <2>2. ingest'[k] = [step |-> "copying", sha |-> ingest[k].sha, sig |-> ingest[k].sig]
      BY <1>1, <2>1 DEF ShopInv, ShopTypeOK, Ingest
    <2>3. shelf[k].file = << >>
      BY <1>1, <2>1 DEF Ladder
    <2>4. shelf'[k] = [file |-> <<source[k]>>, sha |-> shelf[k].sha, sig |-> shelf[k].sig]
      BY <1>1, <1>2, <2>3, Files DEF ShopInv, ShopTypeOK, Shelf
    <2>5. ingest'[k] \in Ingest /\ shelf'[k] \in Shelf
      BY <1>1, <2>2, <2>4, Files DEF Ingest, Shelf
    <2>6. ShopTypeOK'
      BY <1>2, <2>1, <2>5 DEF ShopInv, ShopTypeOK
    <2>7. Signature(k)'
      BY <1>1, <2>1, <2>2, <2>4 DEF Signature
    <2>8. PICK b \in 1..source[k] : ingest[k].sha = Tarball(b)
      BY <1>1, <2>1 DEF Ladder
    <2>9. b <= source[k] /\ source'[k] = source[k] /\ shelf[k].sha = << >>
      BY <1>1, <1>2, <1>3, <2>1, <2>8 DEF Ladder
    <2>10. Ladder(k)'
      BY <1>3, <2>2, <2>4, <2>8, <2>9 DEF Ladder
    <2> QED
      BY <1>2, <2>1, <2>2, <2>6, <2>7, <2>10, OneRelease DEF ShopInv, ShopTypeOK
  <1>5. CASE IngestGoes(k, "copying", "copied")
    <2>1. ingest[k].step = "copying" /\ ingest' = [ingest EXCEPT ![k].step = "copied"]
      BY <1>5 DEF IngestGoes
    <2>2. ingest'[k] = [step |-> "copied", sha |-> ingest[k].sha, sig |-> ingest[k].sig]
      BY <1>1, <2>1 DEF ShopInv, ShopTypeOK, Ingest
    <2>3. PICK b, c \in 1..source[k] :
             b <= c /\ ingest[k].sha = Tarball(b) /\ shelf[k].file = <<c>>
      BY <1>1, <2>1 DEF Ladder
    <2>4. Append(<<c>>, source[k]) = <<c, source[k]>> /\ <<c, source[k]>> \in File
      BY <1>1, <1>3, <2>3, Files
    <2>5. shelf'[k] = [file |-> <<c, source[k]>>, sha |-> shelf[k].sha, sig |-> shelf[k].sig]
      BY <1>1, <1>2, <2>3, <2>4 DEF ShopInv, ShopTypeOK, Shelf
    <2>6. ingest'[k] \in Ingest /\ shelf'[k] \in Shelf
      BY <1>1, <2>2, <2>4, <2>5 DEF Ingest, Shelf
    <2>7. ShopTypeOK'
      BY <1>2, <2>1, <2>6 DEF ShopInv, ShopTypeOK
    <2>8. Signature(k)'
      BY <1>1, <2>1, <2>2, <2>5 DEF Signature
    <2>9. c <= source[k] /\ source'[k] = source[k] /\ shelf[k].sha = << >>
      BY <1>1, <1>2, <1>3, <2>1, <2>3 DEF Ladder
    <2>10. Ladder(k)'
      BY <1>3, <2>2, <2>3, <2>5, <2>9 DEF Ladder
    <2> QED
      BY <1>2, <2>1, <2>2, <2>7, <2>8, <2>10, OneRelease DEF ShopInv, ShopTypeOK
  <1> QED
    BY <1>4, <1>5 DEF CopyBlock

LEMMA SetReleaseArtifactKeeps ==
    ASSUME ShopInv, NEW k \in Release, SetReleaseArtifact(k)
    PROVE  ShopInv' /\ SignaturesStay
  <1>1. /\ ingest[k] \in Ingest /\ shelf[k] \in Shelf /\ Signature(k) /\ Ladder(k)
        /\ ingest[k].step = "copied" /\ source' = source
    BY DEF ShopInv, ShopTypeOK, SetReleaseArtifact, IngestGoes
  <1>2. ingest'[k] = [step |-> "done", sha |-> ingest[k].sha, sig |-> ingest[k].sig]
    BY <1>1 DEF ShopInv, ShopTypeOK, Ingest, SetReleaseArtifact, IngestGoes
  <1>3. shelf'[k] = [file |-> shelf[k].file, sha |-> ingest[k].sha, sig |-> ingest[k].sig]
    BY <1>1 DEF ShopInv, ShopTypeOK, Shelf, SetReleaseArtifact
  <1>4. ingest'[k] \in Ingest /\ shelf'[k] \in Shelf
    BY <1>1, <1>2, <1>3 DEF Ingest, Shelf
  <1>5. ShopTypeOK'
    BY <1>1, <1>4 DEF ShopInv, ShopTypeOK, SetReleaseArtifact, IngestGoes
  <1>6. Signature(k)'
    BY <1>1, <1>2, <1>3 DEF Signature
  <1>7. Ladder(k)'
    BY <1>1, <1>2, <1>3 DEF Ladder
  <1> QED
    BY <1>2, <1>5, <1>6, <1>7, OneRelease
       DEF ShopInv, ShopTypeOK, SetReleaseArtifact, IngestGoes

LEMMA RebuildKeeps ==
    ASSUME ShopInv, NEW k \in Release, Rebuild(k)
    PROVE  ShopInv' /\ SignaturesStay
  <1>1. /\ source[k] \in Build /\ source[k] < MaxBuild /\ Signature(k) /\ Ladder(k)
        /\ ingest' = ingest /\ shelf' = shelf
    BY DEF ShopInv, ShopTypeOK, Rebuild
  <1>2. source'[k] = source[k] + 1 /\ source[k] + 1 \in Build
        /\ 1..source[k] \subseteq 1..(source[k] + 1)
    BY <1>1, ArtifactsAssumption DEF ShopInv, ShopTypeOK, Rebuild, Build
  <1>3. ShopTypeOK'
    BY <1>1, <1>2 DEF ShopInv, ShopTypeOK, Rebuild
  <1>4. Signature(k)'
    BY <1>1 DEF Signature
  <1>5. Ladder(k)'
    BY <1>1, <1>2 DEF Ladder
  <1> QED
    BY <1>1, <1>3, <1>4, <1>5, OneRelease DEF ShopInv, ShopTypeOK, Rebuild

(* Handlers that fail, of any releases at once. *)
LEMMA FailedKeeps ==
    ASSUME ShopInv, NEW F \in SUBSET Release,
           \A k \in F : ingest[k].step \notin {"none", "done"},
           source' = source, shelf' = shelf,
           ingest' = [k \in Release |-> IF k \in F THEN [ingest[k] EXCEPT !.step = "failed"]
                                        ELSE ingest[k]]
    PROVE  ShopInv' /\ SignaturesStay
  <1>1. ASSUME NEW k \in F
        PROVE  /\ ingest'[k] = [step |-> "failed", sha |-> ingest[k].sha, sig |-> ingest[k].sig]
               /\ ingest'[k] \in Ingest
    BY <1>1 DEF ShopInv, ShopTypeOK, Ingest
  <1>2. \A k \in Release \ F : ingest'[k] = ingest[k]
    OBVIOUS
  <1>3. \A k \in Release : ingest'[k] \in Ingest
    BY <1>1, <1>2 DEF ShopInv, ShopTypeOK
  <1>4. ShopTypeOK'
    BY <1>3 DEF ShopInv, ShopTypeOK
  <1>5. ASSUME NEW k \in F PROVE Signature(k)' /\ Ladder(k)'
    <2>1. ingest'[k].step = "failed" /\ ingest'[k].sig = ingest[k].sig
      BY <1>1, <1>5
    <2>2. Signature(k) /\ Ladder(k) /\ ingest[k].step \notin {"none", "done"}
      BY DEF ShopInv
    <2> QED
      BY <2>1, <2>2 DEF Signature, Ladder
  <1>6. ASSUME NEW k \in Release \ F PROVE Signature(k)' /\ Ladder(k)'
    BY <1>2 DEF ShopInv, Signature, Ladder
  <1>7. SignaturesStay
    BY <1>1, <1>2 DEF SignaturesStay
  <1> QED
    BY <1>4, <1>5, <1>6, <1>7 DEF ShopInv

-----------------------------------------------------------------------------
(* The downloads. *)

DownTypeOK ==
    /\ down \in [Robot -> Download]
    /\ disk \in [Robot -> Disk]

(* What a robot was sent, and what it stored. *)
Got(r) ==
    /\ down[r].sig # << >> => down[r].sig = ingest[down[r].release].sig
    /\ disk[r].part => down[r].step = "body"
    /\ \A k \in Release : disk[r].final[k] # << >> => disk[r].final[k] = ingest[k].sig

DownInv == DownTypeOK /\ \A r \in Robot : Got(r)

LEMMA GotStays ==
    ASSUME DownInv, SignaturesStay, down' = down, disk' = disk
    PROVE  DownInv'
  <1>1. DownTypeOK'
    BY DEF DownInv, DownTypeOK
  <1>2. ASSUME NEW r \in Robot PROVE Got(r)'
    <2>1. Got(r) /\ down[r].release \in Release
      BY DEF DownInv, DownTypeOK, Download
    <2> QED
      BY <2>1 DEF Got, SignaturesStay
  <1> QED
    BY <1>1, <1>2 DEF DownInv

LEMMA OneRobot ==
    ASSUME DownInv, NEW r \in Robot, ingest' = ingest,
           \A q \in Robot \ {r} : down'[q] = down[q] /\ disk'[q] = disk[q],
           DownTypeOK', Got(r)'
    PROVE  DownInv'
  <1>1. \A q \in Robot \ {r} : Got(q)'
    BY DEF DownInv, Got
  <1> QED
    BY <1>1 DEF DownInv

LEMMA IdleType ==
    ASSUME NEW d \in Download
    PROVE  /\ Idle(d) \in Download /\ Idle(d).step = "idle"
           /\ Idle(d).sig = << >> /\ Idle(d).release = d.release
  <1>1. d.release \in Release /\ NoToken \in Token /\ << >> \in File
    BY Files DEF Download, Token, NoToken
  <1> QED
    BY <1>1 DEF Idle, Download

LEMMA StartDownloadKeeps ==
    ASSUME DownInv, NEW r \in Robot, NEW k \in Release, StartDownload(r, k),
           agents[r].token \in Token, down[r].step = "idle"
    PROVE  DownInv'
  <1>1. down'[r] = [step |-> "sent", release |-> k, sha |-> << >>, sig |-> << >>,
                    presented |-> agents[r].token]
    BY DEF StartDownload, DownInv, DownTypeOK
  <1>2. down'[r] \in Download
    BY <1>1, Files DEF Download
  <1>3. disk' = disk /\ ingest' = ingest
    BY DEF StartDownload, shopVars
  <1>4. DownTypeOK'
    BY <1>2, <1>3 DEF StartDownload, DownInv, DownTypeOK
  <1>5. Got(r)'
    BY <1>1, <1>3 DEF DownInv, Got
  <1> QED
    BY <1>3, <1>4, <1>5, OneRobot DEF StartDownload, DownInv, DownTypeOK

(* A download that comes to an end as the finally clause leaves it. *)
LEMMA FinishKeeps ==
    ASSUME DownInv, NEW r \in Robot, Finish(r), ~disk[r].part, disk' = disk, ingest' = ingest
    PROVE  DownInv'
  <1>1. down[r] \in Download /\ down' = [down EXCEPT ![r] = Idle(down[r])]
    BY DEF DownInv, DownTypeOK, Finish
  <1>2. down'[r] = Idle(down[r])
    BY <1>1 DEF DownInv, DownTypeOK
  <1>3. down'[r] \in Download /\ down'[r].sig = << >>
    BY <1>1, <1>2, IdleType
  <1>4. DownTypeOK'
    BY <1>1, <1>2, <1>3 DEF DownInv, DownTypeOK
  <1>5. Got(r)'
    BY <1>3 DEF DownInv, Got
  <1> QED
    BY <1>1, <1>4, <1>5, OneRobot DEF DownInv, DownTypeOK

LEMMA RequireAnyRobotKeeps ==
    ASSUME DownInv, NEW r \in Robot, RequireAnyRobot(r), ingest' = ingest
    PROVE  DownInv'
  <1>1. down[r] \in Download /\ down[r].step = "sent" /\ disk' = disk /\ ~disk[r].part
    BY DEF DownInv, DownTypeOK, RequireAnyRobot, Got
  <1>2. CASE Finish(r)
    BY <1>1, <1>2, FinishKeeps
  <1>3. CASE down' = [down EXCEPT ![r].step = "admitted"]
    <2>1. down'[r] = [step |-> "admitted", release |-> down[r].release, sha |-> down[r].sha,
                      presented |-> down[r].presented, sig |-> down[r].sig]
      BY <1>1, <1>3 DEF DownInv, DownTypeOK, Download
    <2>2. down'[r] \in Download
      BY <1>1, <2>1 DEF Download
    <2>3. DownTypeOK'
      BY <1>1, <1>3, <2>2 DEF DownInv, DownTypeOK
    <2>4. Got(r)'
      BY <1>1, <2>1 DEF DownInv, Got
    <2> QED
      BY <1>1, <1>3, <2>3, <2>4, OneRobot DEF DownInv, DownTypeOK
  <1> QED
    BY <1>2, <1>3 DEF RequireAnyRobot

LEMMA GetReleaseArtifactKeeps ==
    ASSUME ShopInv, DownInv, NEW r \in Robot, GetReleaseArtifact(r), ingest' = ingest
    PROVE  DownInv'
  <1> DEFINE k == down[r].release
             s == shelf[k]
  <1>1. /\ down[r] \in Download /\ down[r].step = "admitted" /\ disk' = disk
        /\ ~disk[r].part
    BY DEF DownInv, DownTypeOK, GetReleaseArtifact, Got
  <1>2. k \in Release /\ s \in Shelf /\ Signature(k)
    BY <1>1 DEF Download, ShopInv, ShopTypeOK
  <1>3. CASE Finish(r)
    BY <1>1, <1>3, FinishKeeps
  <1>4. CASE down' = [down EXCEPT ![r].step = "headers", ![r].sha = s.sha, ![r].sig = s.sig]
    <2>1. down'[r] = [step |-> "headers", release |-> k, sha |-> s.sha,
                      presented |-> down[r].presented, sig |-> s.sig]
      BY <1>1, <1>4 DEF DownInv, DownTypeOK, Download
    <2>2. down'[r] \in Download
      BY <1>1, <1>2, <2>1 DEF Download, Shelf
    <2>3. DownTypeOK'
      BY <1>1, <1>4, <2>2 DEF DownInv, DownTypeOK
    <2>4. Got(r)'
      BY <1>1, <1>2, <2>1 DEF DownInv, Got, Signature
    <2> QED
      BY <1>1, <1>4, <2>3, <2>4, OneRobot DEF DownInv, DownTypeOK
  <1> QED
    BY <1>3, <1>4 DEF GetReleaseArtifact

LEMMA OpenPartKeeps ==
    ASSUME DownInv, NEW r \in Robot, OpenPart(r), ingest' = ingest
    PROVE  DownInv'
  <1>1. down[r] \in Download /\ disk[r] \in Disk
    BY DEF DownInv, DownTypeOK
  <1>2. down'[r] = [step |-> "body", release |-> down[r].release, sha |-> down[r].sha,
                    presented |-> down[r].presented, sig |-> down[r].sig]
    BY <1>1 DEF OpenPart, DownInv, DownTypeOK, Download
  <1>3. disk'[r] = [part |-> TRUE, orphan |-> disk[r].orphan, final |-> disk[r].final]
    BY <1>1 DEF OpenPart, DownInv, DownTypeOK, Disk
  <1>4. down'[r] \in Download
    BY <1>1, <1>2 DEF Download
  <1>5. disk'[r] \in Disk
    BY <1>1, <1>3 DEF Disk
  <1>6. DownTypeOK'
    BY <1>4, <1>5 DEF OpenPart, DownInv, DownTypeOK
  <1>7. Got(r)'
    BY <1>2, <1>3 DEF DownInv, Got
  <1> QED
    BY <1>6, <1>7, OneRobot DEF OpenPart, DownInv, DownTypeOK

(* What is verified is what was signed. *)
LEMMA LandKeeps ==
    ASSUME ShopInv, DownInv, NEW r \in Robot, NEW data, Land(r, data), ingest' = ingest
    PROVE  DownInv'
  <1> DEFINE k == down[r].release
             ok == Verified(data, down[r].sha, down[r].sig)
             new == IF ok THEN data ELSE disk[r].final[k]
  <1>1. down[r] \in Download /\ disk[r] \in Disk /\ k \in Release /\ Got(r) /\ Signature(k)
    BY DEF DownInv, DownTypeOK, Download, ShopInv
  <1>2. /\ disk'[r].part = FALSE /\ disk'[r].orphan = disk[r].orphan
        /\ disk'[r].final = [disk[r].final EXCEPT ![k] = new]
        /\ disk'[r] \in [part : {FALSE}, orphan : BOOLEAN, final : {disk'[r].final}]
    BY <1>1 DEF Land, DownInv, DownTypeOK, Disk
  <1>3. ok => data = ingest[k].sig /\ data \in File
    BY <1>1, Files DEF Verified, Got, Download
  <1>4. new \in File /\ (new # << >> => new = ingest[k].sig)
    BY <1>1, <1>3 DEF Disk, Got
  <1> HIDE DEF new
  <1>5. disk'[r].final \in [Release -> File]
    BY <1>1, <1>2, <1>4 DEF Disk
  <1>6. disk'[r] \in Disk
    BY <1>2, <1>5 DEF Disk
  <1>7. down'[r] = Idle(down[r])
    BY DEF Land, Finish, DownInv, DownTypeOK
  <1>8. down'[r] \in Download /\ down'[r].sig = << >>
    BY <1>1, <1>7, IdleType
  <1>9. DownTypeOK'
    BY <1>6, <1>8 DEF Land, Finish, DownInv, DownTypeOK
  <1>10. \A j \in Release : disk'[r].final[j] # << >> => disk'[r].final[j] = ingest[j].sig
    BY <1>1, <1>2, <1>4 DEF Got, Disk
  <1>11. Got(r)'
    BY <1>2, <1>8, <1>10 DEF Got
  <1> QED
    BY <1>9, <1>11, OneRobot DEF Land, Finish, DownInv, DownTypeOK

LEMMA CleanedKeeps ==
    ASSUME DownInv, NEW broken \in SUBSET Robot, Cleaned(broken), SignaturesStay
    PROVE  DownInv'
  <1>1. ASSUME NEW r \in broken
        PROVE  /\ down'[r] \in Download /\ down'[r].sig = << >>
               /\ disk'[r] \in Disk /\ ~disk'[r].part /\ disk'[r].final = disk[r].final
    <2>1. r \in Robot /\ down[r] \in Download /\ disk[r] \in Disk
      BY DEF DownInv, DownTypeOK
    <2>2. down'[r] = Idle(down[r]) /\ disk'[r] = [disk[r] EXCEPT !.part = FALSE]
      BY <2>1 DEF Cleaned
    <2> DEFINE d == [part |-> FALSE, orphan |-> disk[r].orphan, final |-> disk[r].final]
    <2>3. disk'[r] = d
      BY <2>1, <2>2 DEF Disk
    <2>4. d \in Disk /\ ~d.part /\ d.final = disk[r].final
      BY <2>1 DEF Disk
    <2> QED
      BY <2>1, <2>2, <2>3, <2>4, IdleType
  <1>2. \A r \in Robot \ broken : down'[r] = down[r] /\ disk'[r] = disk[r]
    BY DEF Cleaned
  <1>3. ASSUME NEW r \in Robot PROVE down'[r] \in Download /\ disk'[r] \in Disk
    BY <1>1, <1>2 DEF DownInv, DownTypeOK
  <1>4. DownTypeOK'
    BY <1>3 DEF Cleaned, DownTypeOK
  <1>5. ASSUME NEW r \in Robot PROVE Got(r)'
    <2>1. Got(r) /\ down[r].release \in Release
      BY DEF DownInv, DownTypeOK, Download
    <2>2. CASE r \in broken
      <3>1. down'[r].sig = << >> /\ ~disk'[r].part /\ disk'[r].final = disk[r].final
        BY <1>1, <2>2
      <3>2. \A k \in Release :
               disk[r].final[k] # << >> => disk[r].final[k] = ingest'[k].sig
        BY <2>1 DEF Got, SignaturesStay
      <3> QED
        BY <3>1, <3>2 DEF Got
    <2>3. CASE r \notin broken
      BY <2>1, <1>2, <2>3 DEF Got, SignaturesStay
    <2> QED
      BY <2>2, <2>3
  <1> QED
    BY <1>4, <1>5 DEF DownInv

LEMMA KilledKeeps ==
    ASSUME DownInv, NEW r \in Robot, Killed(r)
    PROVE  DownInv'
  <1>1. down[r] \in Download /\ disk[r] \in Disk /\ ingest' = ingest
    BY DEF DownInv, DownTypeOK, Killed, shopVars
  <1>2. down'[r] = Idle(down[r])
    BY DEF Killed, DownInv, DownTypeOK
  <1>3. down'[r] \in Download /\ down'[r].sig = << >>
    BY <1>1, <1>2, IdleType
  <1>4. disk'[r] = [part |-> FALSE, orphan |-> disk[r].orphan \/ disk[r].part,
                    final |-> disk[r].final]
    BY <1>1 DEF Killed, DownInv, DownTypeOK, Disk
  <1>5. disk'[r] \in Disk
    BY <1>1, <1>4 DEF Disk
  <1>6. DownTypeOK'
    BY <1>3, <1>5 DEF Killed, DownInv, DownTypeOK
  <1>7. Got(r)'
    BY <1>1, <1>3, <1>4 DEF DownInv, Got
  <1> QED
    BY <1>1, <1>6, <1>7, OneRobot DEF Killed, DownInv, DownTypeOK

-----------------------------------------------------------------------------
(* The tokens.  What holds of one robot, in parts.                         *)

(* Only a row that exists has a token. *)
Hashed(r) ==
    /\ rows[r].known \/ rows[r].token_hash = NoToken
    /\ \A c \in RequestsOf(r) : c.step = "issue" => rows[r].known

Waiting(c) == c.kind = "heartbeat" /\ c.gone = 0

(* An agent waits for one thing at a time. *)
Waits(r) ==
    /\ \A c \in RequestsOf(r) : Waiting(c) => agents[r].at = "heartbeat"
    /\ \A c, d \in RequestsOf(r) : Waiting(c) /\ Waiting(d) => c = d
    /\ down[r].step # "idle" => agents[r].at = "busy"
    /\ operator[r].late => Up(r)

(* Before its agent was started, a robot has at most a registration on its *)
(* way, and the operator was or will be shown the token on record.         *)
Before(r) ==
    /\ \A c \in RequestsOf(r) :
          /\ c.kind = "register" /\ c.step \in {"upsert", "issue", "ok"}
          /\ c.token = IF c.step = "ok" THEN rows[r].token_hash ELSE NoToken
    /\ RequestsOf(r) = {} => operator[r].token = rows[r].token_hash

(* Afterwards the agent has the token on record, or the only answer on its *)
(* way to it carries it.                                                   *)
After(r) ==
    LET hash == rows[r].token_hash IN
    /\ agents[r].arg = operator[r].token
    /\ \A c \in RequestsOf(r) :
          /\ c.kind = "heartbeat" /\ c.presented = agents[r].token /\ c.step # "refused"
          /\ c.step \in {"new", "admitted", "upsert", "issue"} => c.token = NoToken
          /\ c.step \in {"upsert", "issue"} => hash = NoToken
          /\ c.token # NoToken => c.token = hash /\ agents[r].token = NoToken
    /\ \/ hash = agents[r].token
       \/ agents[r].token = NoToken /\ \E c \in RequestsOf(r) : c.token = hash

Clean(r) == r \notin hurt /\ ~operator[r].late

Secure(r) ==
    Clean(r) =>
       /\ \A c, d \in RequestsOf(r) : c.gone = 0 /\ c = d
       /\ IF Up(r) THEN After(r) ELSE Before(r)

Access(r) == Hashed(r) /\ Waits(r) /\ Secure(r)

BootInv ==
    /\ BootstrapTypeOK
    /\ IsFiniteSet(requests)
    /\ \A r \in Robot : Access(r)

LEMMA OnlyRobot ==
    ASSUME BootInv, NEW r \in Robot,
           \A q \in Robot \ {r} :
              /\ rows'[q] = rows[q] /\ agents'[q] = agents[q] /\ operator'[q] = operator[q]
              /\ RequestsOf(q)' = RequestsOf(q) /\ down'[q] = down[q],
           hurt \subseteq hurt',
           BootstrapTypeOK', IsFiniteSet(requests)', Access(r)'
    PROVE  BootInv'
  <1>1. ASSUME NEW q \in Robot \ {r} PROVE Access(q)'
    <2>1. Hashed(q) /\ Waits(q) /\ Secure(q)
      BY DEF BootInv, Access
    <2>2. Hashed(q)'
      BY <2>1 DEF Hashed
    <2>3. Waits(q)'
      BY <2>1 DEF Waits, Up, Waiting
    <2>4. Up(q)' = Up(q) /\ (Clean(q)' => Clean(q))
      BY DEF Up, Clean
    <2>5. After(q) => After(q)'
      BY DEF After
    <2>6. Before(q) => Before(q)'
      BY DEF Before
    <2>7. Secure(q)'
      BY <2>1, <2>4, <2>5, <2>6 DEF Secure
    <2> QED
      BY <2>2, <2>3, <2>7 DEF Access
  <1> QED
    BY <1>1 DEF BootInv

-----------------------------------------------------------------------------
(* The handlers of module Bootstrap.                                       *)

LEMMA Replaced ==
    ASSUME BootInv, NEW c \in requests, NEW new \in Request, Replace(c, new),
           new.robot = c.robot
    PROVE  /\ requests' \subseteq Request /\ IsFiniteSet(requests)'
           /\ c \in Request /\ c.robot \in Robot
           /\ \A q \in Robot \ {c.robot} : RequestsOf(q)' = RequestsOf(q)
           /\ RequestsOf(c.robot)' \subseteq (RequestsOf(c.robot) \ {c}) \cup {new}
           /\ new.gone = 0 => RequestsOf(c.robot)' = (RequestsOf(c.robot) \ {c}) \cup {new}
  <1>1. requests \subseteq Request /\ IsFiniteSet(requests) /\ c \in Request /\ c.robot \in Robot
    BY DEF BootInv, BootstrapTypeOK, Request
  <1>2. /\ requests' \subseteq (requests \ {c}) \cup {new}
        /\ requests \ {c} \subseteq requests'
        /\ new.gone = 0 => requests' = (requests \ {c}) \cup {new}
    BY DEF Replace
  <1>3. IsFiniteSet(requests \cup {new})
    BY <1>1, FS_AddElement
  <1>4. IsFiniteSet(requests')
    BY <1>2, <1>3, FS_Subset
  <1>5. ASSUME NEW q \in Robot \ {c.robot} PROVE RequestsOf(q)' = RequestsOf(q)
    BY <1>2 DEF RequestsOf
  <1>6. RequestsOf(c.robot)' = {d \in requests' : d.robot = c.robot}
    BY DEF RequestsOf
  <1> QED
    BY <1>1, <1>2, <1>4, <1>5, <1>6 DEF RequestsOf

(* A handler that goes on: its request takes the place of the one before. *)
LEMMA Advance ==
    ASSUME BootInv, NEW c \in requests, NEW new \in Request, Replace(c, new),
           new.robot = c.robot, new.kind = c.kind, new.gone = c.gone,
           UNCHANGED <<agents, operator, hurt, faults, down>>,
           rows' \in [Robot -> Row], issued' \in Nat,
           \A q \in Robot \ {c.robot} : rows'[q] = rows[q],
           rows[c.robot].known => rows'[c.robot].known,
           rows'[c.robot].known \/ rows'[c.robot].token_hash = NoToken,
           new.step = "issue" => rows'[c.robot].known,
           Clean(c.robot) /\ RequestsOf(c.robot) = {c} /\ RequestsOf(c.robot)' = {new} =>
              IF Up(c.robot) THEN After(c.robot)' ELSE Before(c.robot)'
    PROVE  BootInv'
  <1> DEFINE r == c.robot
  <1>1. /\ requests' \subseteq Request /\ IsFiniteSet(requests)' /\ r \in Robot
        /\ \A q \in Robot \ {r} : RequestsOf(q)' = RequestsOf(q)
        /\ RequestsOf(r)' \subseteq (RequestsOf(r) \ {c}) \cup {new}
        /\ new.gone = 0 => RequestsOf(r)' = (RequestsOf(r) \ {c}) \cup {new}
        /\ c \in RequestsOf(r)
    BY Replaced DEF RequestsOf
  <1> HIDE DEF r
  <1>2. Hashed(r) /\ Waits(r) /\ Secure(r)
    BY <1>1 DEF BootInv, Access
  <1>3. BootstrapTypeOK'
    BY <1>1 DEF BootInv, BootstrapTypeOK
  <1>4. Hashed(r)'
    BY <1>1, <1>2 DEF Hashed, r
  <1>5. Waiting(new) <=> Waiting(c)
    BY DEF Waiting
  <1>6. Waits(r)'
    BY <1>1, <1>2, <1>5 DEF Waits, Up, Waiting
  <1>7. Clean(r)' => Clean(r) /\ (\A d \in RequestsOf(r) : d.gone = 0 /\ d = c)
    BY <1>1, <1>2 DEF Clean, Secure
  <1>8. Clean(r)' => RequestsOf(r) = {c} /\ RequestsOf(r)' = {new} /\ new.gone = 0
    BY <1>1, <1>7
  <1>9. Up(r)' = Up(r)
    BY DEF Up
  <1>10. Secure(r)'
    BY <1>7, <1>8, <1>9 DEF Secure, r
  <1>11. Access(r)'
    BY <1>4, <1>6, <1>10 DEF Access
  <1> QED
    BY <1>1, <1>3, <1>11, OnlyRobot DEF r

(* The record a handler writes. *)
LEMMA StepTo ==
    ASSUME NEW c \in Request,
           NEW x \in {"new", "admitted", "upsert", "issue", "version", "ok", "refused"}
    PROVE  LET n == [c EXCEPT !.step = x] IN
           /\ n \in Request /\ n.step = x /\ n.token = c.token
           /\ n.robot = c.robot /\ n.kind = c.kind /\ n.gone = c.gone
           /\ n.presented = c.presented
  BY DEF Request

(* The request of a robot that is clean, and what is said of it alone. *)
LEMMA Alone ==
    ASSUME BootInv, NEW c \in requests, Clean(c.robot), RequestsOf(c.robot) = {c}
    PROVE  IF Up(c.robot) THEN After(c.robot) ELSE Before(c.robot)
  BY DEF BootInv, BootstrapTypeOK, Request, Access, Secure

LEMMA RequireRobotKeeps ==
    ASSUME BootInv, NEW c \in requests, RequireRobot(c),
           UNCHANGED <<agents, operator, hurt, faults, down>>
    PROVE  BootInv'
  <1> DEFINE r == c.robot
             x == IF Admits(r, c.presented) THEN "admitted" ELSE "refused"
             new == [c EXCEPT !.step = x]
  <1>1. /\ c \in Request /\ r \in Robot /\ c.step = "new" /\ Replace(c, new)
        /\ rows' = rows /\ issued' = issued
    BY DEF RequireRobot, BootInv, BootstrapTypeOK, Request
  <1>2. /\ new \in Request /\ new.step = x /\ new.token = c.token /\ new.robot = r
        /\ new.kind = c.kind /\ new.gone = c.gone /\ new.presented = c.presented
    <2>1. x \in {"new", "admitted", "upsert", "issue", "version", "ok", "refused"}
      OBVIOUS
    <2> HIDE DEF x
    <2> QED
      BY <1>1, <2>1, StepTo
  <1> HIDE DEF new
  <1>3. ASSUME Clean(r), RequestsOf(r) = {c}, RequestsOf(r)' = {new}
        PROVE  IF Up(r) THEN After(r)' ELSE Before(r)'
    <2>1. IF Up(r) THEN After(r) ELSE Before(r)
      BY <1>3, Alone
    <2>2. CASE ~Up(r)
      BY <1>1, <1>3, <2>1, <2>2 DEF Before
    <2>3. CASE Up(r)
      <3>1. After(r)
        BY <2>1, <2>3
      <3>2. rows[r].token_hash = agents[r].token /\ c.presented = agents[r].token
            /\ c.token = NoToken /\ c.kind = "heartbeat"
        BY <1>1, <1>3, <3>1 DEF After
      <3>3. x = "admitted"
        BY <3>2 DEF Admits
      <3>4. After(r)'
        BY <1>1, <1>2, <1>3, <3>1, <3>2, <3>3 DEF After
      <3> QED
        BY <2>3, <3>4
    <2> QED
      BY <2>2, <2>3
  <1>4. rows[r].known \/ rows[r].token_hash = NoToken
    BY <1>1 DEF BootInv, Access, Hashed
  <1>5. rows' \in [Robot -> Row] /\ issued' \in Nat /\ new.step # "issue"
    BY <1>1, <1>2 DEF BootInv, BootstrapTypeOK
  <1> HIDE DEF x
  <1>6. Clean(r) /\ RequestsOf(r) = {c} /\ RequestsOf(r)' = {new} =>
           IF Up(r) THEN After(r)' ELSE Before(r)'
    BY <1>3
  <1>7. /\ \A q \in Robot \ {r} : rows'[q] = rows[q]
        /\ rows[r].known => rows'[r].known
        /\ rows'[r].known \/ rows'[r].token_hash = NoToken
        /\ new.step = "issue" => rows'[r].known
    BY <1>1, <1>4, <1>5
  <1> QED
    BY <1>1, <1>2, <1>5, <1>6, <1>7, Advance

LEMMA DecideKeeps ==
    ASSUME BootInv, NEW c \in requests, Decide(c),
           UNCHANGED <<agents, operator, hurt, faults, down>>
    PROVE  BootInv'
  <1> DEFINE r == c.robot
             x == IF ~rows[r].known \/ rows[r].token_hash = NoToken THEN "upsert"
                  ELSE "version"
             new == [c EXCEPT !.step = x]
  <1>1. /\ c \in Request /\ r \in Robot /\ c.step = "admitted" /\ Replace(c, new)
        /\ rows' = rows /\ issued' = issued
    BY DEF Decide, BootInv, BootstrapTypeOK, Request
  <1>2. /\ new \in Request /\ new.step = x /\ new.token = c.token /\ new.robot = r
        /\ new.kind = c.kind /\ new.gone = c.gone /\ new.presented = c.presented
    <2>1. x \in {"new", "admitted", "upsert", "issue", "version", "ok", "refused"}
      OBVIOUS
    <2> HIDE DEF x
    <2> QED
      BY <1>1, <2>1, StepTo
  <1> HIDE DEF new
  <1>4. rows[r].known \/ rows[r].token_hash = NoToken
    BY <1>1 DEF BootInv, Access, Hashed
  <1>3. ASSUME Clean(r), RequestsOf(r) = {c}, RequestsOf(r)' = {new}
        PROVE  IF Up(r) THEN After(r)' ELSE Before(r)'
    <2>1. IF Up(r) THEN After(r) ELSE Before(r)
      BY <1>3, Alone
    <2>2. CASE ~Up(r)
      BY <1>1, <1>3, <2>1, <2>2 DEF Before
    <2>3. CASE Up(r)
      <3>1. After(r)
        BY <2>1, <2>3
      <3>2. rows[r].token_hash = agents[r].token /\ c.presented = agents[r].token
            /\ c.token = NoToken /\ c.kind = "heartbeat"
        BY <1>1, <1>3, <3>1 DEF After
      <3>3. x = "upsert" => rows[r].token_hash = NoToken
        BY <1>4
      <3>4. x \in {"upsert", "version"}
        OBVIOUS
      <3> HIDE DEF x
      <3>5. After(r)'
        BY <1>1, <1>2, <1>3, <3>1, <3>2, <3>3, <3>4 DEF After
      <3> QED
        BY <2>3, <3>5
    <2> QED
      BY <2>2, <2>3
  <1>5. rows' \in [Robot -> Row] /\ issued' \in Nat /\ new.step # "issue"
    BY <1>1, <1>2 DEF BootInv, BootstrapTypeOK
  <1> HIDE DEF x
  <1>6. Clean(r) /\ RequestsOf(r) = {c} /\ RequestsOf(r)' = {new} =>
           IF Up(r) THEN After(r)' ELSE Before(r)'
    BY <1>3
  <1>7. /\ \A q \in Robot \ {r} : rows'[q] = rows[q]
        /\ rows[r].known => rows'[r].known
        /\ rows'[r].known \/ rows'[r].token_hash = NoToken
        /\ new.step = "issue" => rows'[r].known
    BY <1>1, <1>4, <1>5
  <1> QED
    BY <1>1, <1>2, <1>5, <1>6, <1>7, Advance

LEMMA UpsertRobotKeeps ==
    ASSUME BootInv, NEW c \in requests, UpsertRobot(c),
           UNCHANGED <<agents, operator, hurt, faults, down>>
    PROVE  BootInv'
  <1> DEFINE r == c.robot
             new == [c EXCEPT !.step = "issue"]
             v == IF c.kind = "register" THEN "default" ELSE "own"
  <1>1. /\ c \in Request /\ r \in Robot /\ c.step = "upsert" /\ Replace(c, new)
        /\ issued' = issued
        /\ rows' = [rows EXCEPT ![r].known = TRUE, ![r].current_version = v]
    BY DEF UpsertRobot, BootInv, BootstrapTypeOK, Request
  <1>2. /\ new \in Request /\ new.step = "issue" /\ new.token = c.token /\ new.robot = r
        /\ new.kind = c.kind /\ new.gone = c.gone /\ new.presented = c.presented
    BY <1>1, StepTo
  <1>3. rows \in [Robot -> Row] /\ issued \in Nat
    BY DEF BootInv, BootstrapTypeOK
  <1>4. v \in {"default", "own"}
    OBVIOUS
  <1> HIDE DEF new, v
  <1>5. rows'[r] = [known |-> TRUE, token_hash |-> rows[r].token_hash, current_version |-> v]
    BY <1>1, <1>3 DEF Row
  <1>6. rows'[r] \in Row /\ rows'[r].known /\ rows'[r].token_hash = rows[r].token_hash
    BY <1>1, <1>3, <1>4, <1>5 DEF Row
  <1>7. rows' \in [Robot -> Row] /\ \A q \in Robot \ {r} : rows'[q] = rows[q]
    BY <1>1, <1>3, <1>6
  <1>8. ASSUME Clean(r), RequestsOf(r) = {c}, RequestsOf(r)' = {new}
        PROVE  IF Up(r) THEN After(r)' ELSE Before(r)'
    <2>1. IF Up(r) THEN After(r) ELSE Before(r)
      BY <1>8, Alone
    <2>2. CASE ~Up(r)
      <3>1. c.kind = "register" /\ c.token = NoToken
        BY <1>1, <1>8, <2>1, <2>2 DEF Before
      <3>2. Before(r)'
        BY <1>2, <1>8, <3>1 DEF Before
      <3> QED
        BY <2>2, <3>2
    <2>3. CASE Up(r)
      <3>1. After(r)
        BY <2>1, <2>3
      <3>2. /\ rows[r].token_hash = agents[r].token /\ c.presented = agents[r].token
            /\ rows[r].token_hash = NoToken /\ c.token = NoToken /\ c.kind = "heartbeat"
        BY <1>1, <1>8, <3>1 DEF After
      <3>3. After(r)'
        BY <1>2, <1>6, <1>8, <3>1, <3>2 DEF After
      <3> QED
        BY <2>3, <3>3
    <2> QED
      BY <2>2, <2>3
  <1>9. Clean(r) /\ RequestsOf(r) = {c} /\ RequestsOf(r)' = {new} =>
           IF Up(r) THEN After(r)' ELSE Before(r)'
    BY <1>8
  <1>10. issued' \in Nat
    BY <1>1, <1>3
  <1> QED
    BY <1>1, <1>2, <1>6, <1>7, <1>9, <1>10, Advance

(* The token that is stored is the one that is sent. *)
LEMMA IssueTokenKeeps ==
    ASSUME BootInv, NEW c \in requests, IssueToken(c),
           UNCHANGED <<agents, operator, hurt, faults, down>>
    PROVE  BootInv'
  <1> DEFINE r == c.robot
             t == issued + 1
             x == IF c.kind = "register" THEN "ok" ELSE "version"
             new == [c EXCEPT !.token = t, !.step = x]
  <1>1. /\ c \in Request /\ r \in Robot /\ c.step = "issue" /\ Replace(c, new)
        /\ issued' = t /\ rows' = [rows EXCEPT ![r].token_hash = t]
    BY DEF IssueToken, BootInv, BootstrapTypeOK, Request
  <1>2. rows \in [Robot -> Row] /\ t \in Nat /\ t # NoToken /\ t \in Token
    BY DEF BootInv, BootstrapTypeOK, NoToken, Token
  <1>3. x \in {"version", "ok"} /\ (x = "ok" <=> c.kind = "register")
    OBVIOUS
  <1> HIDE DEF t, x
  <1>4. /\ new \in Request /\ new.step = x /\ new.token = t /\ new.robot = r
        /\ new.kind = c.kind /\ new.gone = c.gone /\ new.presented = c.presented
    <2>1. c \in Request
      BY <1>1
    <2> QED
      BY <2>1, <1>2, <1>3 DEF Request
  <1> HIDE DEF new
  <1>5. rows'[r] = [known |-> rows[r].known, token_hash |-> t,
                    current_version |-> rows[r].current_version]
    BY <1>1, <1>2 DEF Row
  <1>6. rows'[r] \in Row /\ rows'[r].known = rows[r].known /\ rows'[r].token_hash = t
    BY <1>1, <1>2, <1>5 DEF Row
  <1>7. rows' \in [Robot -> Row] /\ \A q \in Robot \ {r} : rows'[q] = rows[q]
    BY <1>1, <1>2, <1>6
  <1>8. ASSUME Clean(r), RequestsOf(r) = {c}, RequestsOf(r)' = {new}
        PROVE  IF Up(r) THEN After(r)' ELSE Before(r)'
    <2>1. IF Up(r) THEN After(r) ELSE Before(r)
      BY <1>8, Alone
    <2>2. CASE ~Up(r)
      <3>1. c.kind = "register"
        BY <1>8, <2>1, <2>2 DEF Before
      <3>2. Before(r)'
        BY <1>3, <1>4, <1>6, <1>8, <3>1 DEF Before
      <3> QED
        BY <2>2, <3>2
    <2>3. CASE Up(r)
      <3>1. After(r)
        BY <2>1, <2>3
      <3>2. /\ agents[r].token = NoToken /\ c.presented = agents[r].token
            /\ c.kind = "heartbeat"
        BY <1>1, <1>8, <3>1 DEF After
      <3>3. x = "version"
        BY <1>3, <3>2
      <3>4. After(r)'
        BY <1>4, <1>6, <1>8, <3>1, <3>2, <3>3 DEF After
      <3> QED
        BY <2>3, <3>4
    <2> QED
      BY <2>2, <2>3
  <1>9. Clean(r) /\ RequestsOf(r) = {c} /\ RequestsOf(r)' = {new} =>
           IF Up(r) THEN After(r)' ELSE Before(r)'
    BY <1>8
  <1>10. rows'[r].known
    BY <1>1, <1>6 DEF BootInv, Access, Hashed, RequestsOf
  <1> QED
    BY <1>1, <1>2, <1>4, <1>7, <1>9, <1>10, Advance

LEMMA StoreVersionKeeps ==
    ASSUME BootInv, NEW c \in requests, StoreVersion(c),
           UNCHANGED <<agents, operator, hurt, faults, down>>
    PROVE  BootInv'
  <1> DEFINE r == c.robot
             new == [c EXCEPT !.step = "ok"]
  <1>1. /\ c \in Request /\ r \in Robot /\ c.step = "version" /\ Replace(c, new)
        /\ issued' = issued /\ rows' = [rows EXCEPT ![r].current_version = "own"]
    BY DEF StoreVersion, BootInv, BootstrapTypeOK, Request
  <1>2. /\ new \in Request /\ new.step = "ok" /\ new.token = c.token /\ new.robot = r
        /\ new.kind = c.kind /\ new.gone = c.gone /\ new.presented = c.presented
    BY <1>1, StepTo
  <1> HIDE DEF new
  <1>3. rows \in [Robot -> Row] /\ issued' \in Nat
    BY <1>1 DEF BootInv, BootstrapTypeOK
  <1>4. rows'[r] = [known |-> rows[r].known, token_hash |-> rows[r].token_hash,
                    current_version |-> "own"]
    BY <1>1, <1>3 DEF Row
  <1>5. /\ rows'[r] \in Row /\ rows'[r].known = rows[r].known
        /\ rows'[r].token_hash = rows[r].token_hash
    BY <1>1, <1>3, <1>4 DEF Row
  <1>6. rows' \in [Robot -> Row] /\ \A q \in Robot \ {r} : rows'[q] = rows[q]
    BY <1>1, <1>3, <1>5
  <1>7. ASSUME Clean(r), RequestsOf(r) = {c}, RequestsOf(r)' = {new}
        PROVE  IF Up(r) THEN After(r)' ELSE Before(r)'
    <2>1. IF Up(r) THEN After(r) ELSE Before(r)
      BY <1>7, Alone
    <2>2. CASE ~Up(r)
      BY <1>1, <1>7, <2>1, <2>2 DEF Before
    <2>3. CASE Up(r)
      <3>1. After(r)
        BY <2>1, <2>3
      <3>2. After(r)'
        BY <1>2, <1>5, <1>7, <3>1 DEF After
      <3> QED
        BY <2>3, <3>2
    <2> QED
      BY <2>2, <2>3
  <1>8. Clean(r) /\ RequestsOf(r) = {c} /\ RequestsOf(r)' = {new} =>
           IF Up(r) THEN After(r)' ELSE Before(r)'
    BY <1>7
  <1>9. rows[r].known \/ rows[r].token_hash = NoToken
    BY <1>1 DEF BootInv, Access, Hashed
  <1> QED
    BY <1>1, <1>2, <1>3, <1>5, <1>6, <1>8, <1>9, Advance

LEMMA HandlerKeeps ==
    ASSUME BootInv, NEW c \in requests, HandlerStep(c), down' = down
    PROVE  BootInv'
  BY RequireRobotKeeps, DecideKeeps, UpsertRobotKeeps, IssueTokenKeeps, StoreVersionKeeps
     DEF HandlerStep

-----------------------------------------------------------------------------
(* The agents, the operator and the faults of module Bootstrap.            *)

LEMMA FaultType ==
    ASSUME BootInv, NEW met \in SUBSET Robot, Fault(met)
    PROVE  /\ faults' \in 0..MaxFaults /\ hurt' \in SUBSET Robot
           /\ hurt \subseteq hurt' /\ met \subseteq hurt'
  BY BootstrapAssumption DEF Fault, BootInv, BootstrapTypeOK

(* An agent that neither waits nor starts. *)
LEMMA AtOnly ==
    ASSUME BootInv, NEW r \in Robot, NEW x \in {"loop", "poll", "busy"},
           agents' = [agents EXCEPT ![r].at = x], agents[r].at \notin {"off", "heartbeat"},
           down'[r].step # "idle" => x = "busy",
           \A q \in Robot \ {r} : down'[q] = down[q],
           UNCHANGED <<rows, issued, requests, operator>>,
           hurt \subseteq hurt', hurt' \in SUBSET Robot, faults' \in 0..MaxFaults
    PROVE  BootInv'
  <1>1. agents[r] \in AgentRow /\ agents \in [Robot -> AgentRow]
    BY DEF BootInv, BootstrapTypeOK
  <1>2. agents'[r] = [at |-> x, arg |-> agents[r].arg, token |-> agents[r].token]
    BY <1>1 DEF AgentRow
  <1>3. /\ agents'[r] \in AgentRow /\ agents'[r].at = x
        /\ agents'[r].arg = agents[r].arg /\ agents'[r].token = agents[r].token
    BY <1>1, <1>2 DEF AgentRow
  <1>4. agents' \in [Robot -> AgentRow] /\ \A q \in Robot \ {r} : agents'[q] = agents[q]
    BY <1>1, <1>3
  <1>5. BootstrapTypeOK' /\ IsFiniteSet(requests)'
    BY <1>4 DEF BootInv, BootstrapTypeOK
  <1>6. Hashed(r) /\ Waits(r) /\ Secure(r)
    BY DEF BootInv, Access
  <1>7. \A q \in Robot : RequestsOf(q)' = RequestsOf(q)
    BY DEF RequestsOf
  <1>8. Hashed(r)'
    BY <1>6, <1>7 DEF Hashed
  <1>9. Waits(r)'
    BY <1>3, <1>6, <1>7 DEF Waits, Up, Waiting
  <1>10. Up(r) /\ Up(r)' /\ (Clean(r)' => Clean(r))
    BY <1>3 DEF Up, Clean
  <1>11. After(r) => After(r)'
    BY <1>3, <1>7 DEF After
  <1>12. Secure(r)'
    BY <1>6, <1>7, <1>10, <1>11 DEF Secure
  <1>13. Access(r)'
    BY <1>8, <1>9, <1>12 DEF Access
  <1> QED
    BY <1>4, <1>5, <1>7, <1>13, OnlyRobot

LEMMA SendType ==
    ASSUME BootInv, NEW r \in Robot, NEW kind \in {"heartbeat", "register"},
           NEW t \in Token, NEW step \in {"new", "upsert"}, Send(r, kind, t, step)
    PROVE  /\ requests' \subseteq Request /\ IsFiniteSet(requests)'
           /\ \A q \in Robot \ {r} : RequestsOf(q)' = RequestsOf(q)
           /\ \E c \in Request :
                 /\ c.robot = r /\ c.kind = kind /\ c.presented = t /\ c.step = step
                 /\ c.token = NoToken /\ c.gone = 0
                 /\ RequestsOf(r)' = RequestsOf(r) \cup {c}
  <1> DEFINE c == [robot |-> r, kind |-> kind, presented |-> t, step |-> step,
                   token |-> NoToken, gone |-> 0]
  <1>1. requests' = requests \cup {c}
    BY DEF Send
  <1>2. c \in Request /\ c.robot = r /\ c.kind = kind /\ c.presented = t /\ c.step = step
        /\ c.token = NoToken /\ c.gone = 0
    BY DEF Request, Token, NoToken
  <1> HIDE DEF c
  <1>3. requests' \subseteq Request /\ IsFiniteSet(requests')
    BY <1>1, <1>2, FS_AddElement DEF BootInv, BootstrapTypeOK
  <1>4. \A q \in Robot \ {r} : RequestsOf(q)' = RequestsOf(q)
    BY <1>1, <1>2 DEF RequestsOf
  <1>5. RequestsOf(r)' = RequestsOf(r) \cup {c}
    BY <1>1, <1>2 DEF RequestsOf
  <1> QED
    BY <1>2, <1>3, <1>4, <1>5

LEMMA HeartbeatKeeps ==
    ASSUME BootInv, NEW r \in Robot, Heartbeat(r), down' = down
    PROVE  BootInv'
  <1>1. agents[r] \in AgentRow /\ agents \in [Robot -> AgentRow] /\ agents[r].at = "loop"
    BY DEF Heartbeat, BootInv, BootstrapTypeOK
  <1>2. agents[r].token \in Token
    BY <1>1 DEF AgentRow
  <1>3. /\ requests' \subseteq Request /\ IsFiniteSet(requests)'
        /\ \A q \in Robot \ {r} : RequestsOf(q)' = RequestsOf(q)
    BY <1>2, SendType DEF Heartbeat
  <1>4. PICK c \in Request :
           /\ c.robot = r /\ c.kind = "heartbeat" /\ c.presented = agents[r].token
           /\ c.step = "new" /\ c.token = NoToken /\ c.gone = 0
           /\ RequestsOf(r)' = RequestsOf(r) \cup {c}
    BY <1>2, SendType DEF Heartbeat
  <1>5. agents'[r] = [at |-> "heartbeat", arg |-> agents[r].arg, token |-> agents[r].token]
    BY <1>1 DEF Heartbeat, AgentRow
  <1>6. /\ agents'[r] \in AgentRow /\ agents'[r].at = "heartbeat"
        /\ agents'[r].arg = agents[r].arg /\ agents'[r].token = agents[r].token
    BY <1>1, <1>5 DEF AgentRow
  <1>7. agents' \in [Robot -> AgentRow] /\ \A q \in Robot \ {r} : agents'[q] = agents[q]
    BY <1>1, <1>6 DEF Heartbeat
  <1>8. UNCHANGED <<rows, issued, operator, hurt, faults>>
    BY DEF Heartbeat
  <1>9. BootstrapTypeOK'
    BY <1>3, <1>7, <1>8 DEF BootInv, BootstrapTypeOK
  <1>10. Hashed(r) /\ Waits(r) /\ Secure(r)
    BY DEF BootInv, Access
  <1>11. Hashed(r)'
    BY <1>4, <1>8, <1>10 DEF Hashed
  <1>12. /\ \A d \in RequestsOf(r) : ~Waiting(d)
         /\ down[r].step = "idle"
    BY <1>1, <1>10 DEF Waits
  <1>13. Up(r) /\ Up(r)'
    BY <1>1, <1>6 DEF Up
  <1>14. Waits(r)'
    BY <1>4, <1>6, <1>12, <1>13 DEF Waits, Waiting
  <1>15. ASSUME Clean(r)' PROVE RequestsOf(r) = {} /\ After(r)
    <2>1. Clean(r) /\ After(r) /\ \A d \in RequestsOf(r) : d.gone = 0
      BY <1>8, <1>10, <1>13, <1>15 DEF Clean, Secure
    <2>2. \A d \in RequestsOf(r) : Waiting(d)
      BY <2>1 DEF After, Waiting
    <2> QED
      BY <1>12, <2>1, <2>2
  <1>16. ASSUME Clean(r)' PROVE After(r)'
    <2>1. RequestsOf(r)' = {c} /\ RequestsOf(r) = {} /\ After(r)
      BY <1>4, <1>15, <1>16
    <2>2. rows[r].token_hash = agents[r].token
      BY <2>1 DEF After
    <2> QED
      BY <1>4, <1>6, <1>8, <2>1, <2>2 DEF After
  <1>17. Clean(r)' => RequestsOf(r)' = {c}
    BY <1>4, <1>15
  <1>18. Secure(r)'
    BY <1>4, <1>13, <1>16, <1>17 DEF Secure
  <1>19. Access(r)'
    BY <1>11, <1>14, <1>18 DEF Access
  <1> QED
    BY <1>3, <1>7, <1>8, <1>9, <1>19, OnlyRobot

LEMMA AnswerKeeps ==
    ASSUME BootInv, NEW c \in requests, Answer(c), down' = down
    PROVE  BootInv'
  <1> DEFINE r == c.robot
  <1>1. /\ c \in Request /\ r \in Robot /\ c \in RequestsOf(r)
        /\ c.gone = 0 /\ c.step \in {"ok", "refused"} /\ requests' = requests \ {c}
        /\ UNCHANGED <<rows, issued, hurt, faults>>
    BY DEF BootInv, BootstrapTypeOK, Request, RequestsOf, Answer, Over
  <1>2. Hashed(r) /\ Waits(r) /\ Secure(r)
    BY <1>1 DEF BootInv, Access
  <1>3. requests \subseteq Request /\ IsFiniteSet(requests) /\ c.token \in Token
    BY <1>1 DEF BootInv, BootstrapTypeOK, Request
  <1>4. requests' \subseteq Request /\ IsFiniteSet(requests)'
    BY <1>1, <1>3, FS_Subset
  <1>5. /\ \A q \in Robot \ {r} : RequestsOf(q)' = RequestsOf(q)
        /\ RequestsOf(r)' = RequestsOf(r) \ {c}
    BY <1>1 DEF RequestsOf
  <1>6. /\ agents \in [Robot -> AgentRow] /\ agents[r] \in AgentRow
        /\ operator \in [Robot -> Operator] /\ operator[r] \in Operator
    BY <1>1 DEF BootInv, BootstrapTypeOK
  <1> HIDE DEF r
  <1>7. Hashed(r)'
    BY <1>1, <1>2, <1>5 DEF Hashed
  <1>8. CASE c.kind = "register"
    <2>1. operator' = [operator EXCEPT ![r].token = c.token] /\ agents' = agents
      BY <1>8 DEF Answer, r
    <2>2. operator'[r] = [token |-> c.token, registrations |-> operator[r].registrations,
                          late |-> operator[r].late]
      BY <1>6, <1>1, <2>1 DEF Operator
    <2>3. /\ operator'[r] \in Operator /\ operator'[r].token = c.token
          /\ operator'[r].late = operator[r].late
      BY <1>6, <1>3, <2>2 DEF Operator
    <2>4. operator' \in [Robot -> Operator] /\ \A q \in Robot \ {r} : operator'[q] = operator[q]
      BY <1>6, <2>1, <2>3
    <2>5. BootstrapTypeOK'
      BY <1>1, <1>4, <2>1, <2>4 DEF BootInv, BootstrapTypeOK
    <2>6. Waits(r)'
      BY <1>2, <1>5, <2>1, <2>3 DEF Waits, Up, Waiting
    <2>7. ASSUME Clean(r)' PROVE ~Up(r) /\ Before(r) /\ RequestsOf(r)' = {}
      <3>1. Clean(r) /\ ~After(r)
        BY <1>1, <1>8, <2>3, <2>7 DEF Clean, After
      <3> QED
        BY <1>1, <1>2, <1>5, <3>1 DEF Secure
    <2>8. ASSUME Clean(r)' PROVE Before(r)' /\ ~Up(r)'
      <3>1. c.token = rows[r].token_hash
        BY <1>1, <2>7, <2>8 DEF Before
      <3> QED
        BY <1>1, <2>1, <2>3, <2>7, <2>8, <3>1 DEF Before, Up
    <2>9. Secure(r)'
      BY <2>7, <2>8 DEF Secure
    <2>10. Access(r)'
      BY <1>7, <2>6, <2>9 DEF Access
    <2> QED
      BY <1>1, <1>4, <1>5, <2>1, <2>4, <2>5, <2>10, OnlyRobot
  <1>9. CASE c.kind # "register"
    <2> DEFINE t == IF agents[r].token = NoToken THEN c.token ELSE agents[r].token
    <2>1. agents' = [agents EXCEPT ![r].at = "poll", ![r].token = t] /\ operator' = operator
      BY <1>9, <1>6 DEF Answer, r
    <2>2. t \in Token
      BY <1>3, <1>6 DEF AgentRow
    <2>3. agents'[r] = [at |-> "poll", arg |-> agents[r].arg, token |-> t]
      BY <1>6, <1>1, <2>1 DEF AgentRow
    <2>4. /\ agents'[r] \in AgentRow /\ agents'[r].at = "poll"
          /\ agents'[r].arg = agents[r].arg /\ agents'[r].token = t
      BY <1>6, <2>2, <2>3 DEF AgentRow
    <2> HIDE DEF t
    <2>5. agents' \in [Robot -> AgentRow] /\ \A q \in Robot \ {r} : agents'[q] = agents[q]
      BY <1>6, <2>1, <2>4
    <2>6. BootstrapTypeOK'
      BY <1>1, <1>4, <2>1, <2>5 DEF BootInv, BootstrapTypeOK
    <2>7. Waiting(c) /\ agents[r].at = "heartbeat" /\ \A d \in RequestsOf(r)' : ~Waiting(d)
      BY <1>1, <1>2, <1>5, <1>9 DEF Waits, Waiting, Request
    <2>8. Up(r) /\ Up(r)'
      BY <2>4, <2>7 DEF Up
    <2>9. Waits(r)'
      BY <1>2, <2>1, <2>7, <2>8 DEF Waits, Waiting
    <2>10. ASSUME Clean(r)' PROVE After(r) /\ RequestsOf(r) = {c} /\ RequestsOf(r)' = {}
      <3>1. Clean(r)
        BY <1>1, <2>1, <2>10 DEF Clean
      <3> QED
        BY <1>1, <1>2, <1>5, <2>8, <3>1 DEF Secure
    <2>11. ASSUME Clean(r)' PROVE After(r)'
      <3>1. rows[r].token_hash = t
        BY <2>10, <2>11 DEF After, t
      <3> QED
        BY <1>1, <2>1, <2>4, <2>10, <2>11, <3>1 DEF After
    <2>12. Secure(r)'
      BY <2>8, <2>10, <2>11 DEF Secure
    <2>13. Access(r)'
      BY <1>7, <2>9, <2>12 DEF Access
    <2> QED
      BY <1>1, <1>4, <1>5, <2>1, <2>5, <2>6, <2>13, OnlyRobot
  <1> QED
    BY <1>8, <1>9

(* The number of an abandoned request is not 0. *)
LEMMA Abandoned ==
    ASSUME BootInv, NEW c \in requests, Abandon(c)
    PROVE  \E new \in Request :
              /\ Replace(c, new) /\ new.robot = c.robot
              /\ new.step = c.step /\ ~Waiting(new)
  <1>1. c \in Request /\ Cardinality(requests) \in Nat
    BY FS_CardinalityType DEF BootInv, BootstrapTypeOK
  <1>2. PICK i \in 1..(Cardinality(requests) + 1) : Replace(c, [c EXCEPT !.gone = i])
    BY DEF Abandon
  <1> DEFINE new == [c EXCEPT !.gone = i]
  <1>3. i \in Nat /\ i # 0
    BY <1>1
  <1>4. new \in Request /\ new.robot = c.robot /\ new.step = c.step /\ new.gone = i
    BY <1>1, <1>3 DEF Request
  <1> QED
    BY <1>2, <1>3, <1>4 DEF Waiting

(* A robot whose agent starts has no handler that sees it wait. *)
LEMMA BootRequests ==
    ASSUME BootInv, NEW r \in Robot, NEW arg, Boot(r, arg)
    PROVE  /\ requests' \subseteq Request /\ IsFiniteSet(requests)'
           /\ \A q \in Robot \ {r} : RequestsOf(q)' = RequestsOf(q)
           /\ \A d \in RequestsOf(r)' : ~Waiting(d) /\ (d.step = "issue" => rows[r].known)
           /\ ~Up(r) => requests' = requests
  <1>1. Hashed(r) /\ Waits(r)
    BY DEF BootInv, Access
  <1>2. CASE agents[r].at = "heartbeat"
    <2>1. PICK c \in RequestsOf(r) : Waiting(c) /\ Abandon(c)
      BY <1>2 DEF Boot, Waiting
    <2>2. c \in requests /\ c.robot = r
      BY DEF RequestsOf
    <2>3. PICK new \in Request :
             /\ Replace(c, new) /\ new.robot = c.robot
             /\ new.step = c.step /\ ~Waiting(new)
      BY <2>1, <2>2, Abandoned
    <2>4. /\ requests' \subseteq Request /\ IsFiniteSet(requests)'
          /\ \A q \in Robot \ {r} : RequestsOf(q)' = RequestsOf(q)
          /\ RequestsOf(r)' \subseteq (RequestsOf(r) \ {c}) \cup {new}
      BY <2>2, <2>3, Replaced
    <2>5. \A d \in RequestsOf(r) \ {c} : ~Waiting(d)
      BY <1>1, <2>1 DEF Waits
    <2>6. \A d \in RequestsOf(r) \cup {new} : d.step = "issue" => rows[r].known
      BY <1>1, <2>3 DEF Hashed
    <2>7. Up(r)
      BY <1>2 DEF Up
    <2> QED
      BY <2>3, <2>4, <2>5, <2>6, <2>7
  <1>3. CASE agents[r].at # "heartbeat"
    <2>1. requests' = requests
      BY <1>3 DEF Boot
    <2>2. \A d \in RequestsOf(r) : ~Waiting(d)
      BY <1>1, <1>3 DEF Waits
    <2>3. \A q \in Robot : RequestsOf(q)' = RequestsOf(q)
      BY <2>1 DEF RequestsOf
    <2> QED
      BY <1>1, <2>1, <2>2, <2>3 DEF BootInv, BootstrapTypeOK, Hashed
  <1> QED
    BY <1>2, <1>3

LEMMA BootKeeps ==
    ASSUME BootInv, NEW r \in Robot, NEW arg \in Token, Boot(r, arg),
           down'[r].step = "idle", \A q \in Robot \ {r} : down'[q] = down[q],
           hurt \subseteq hurt', hurt' \in SUBSET Robot, faults' \in 0..MaxFaults,
           operator' \in [Robot -> Operator],
           \A q \in Robot \ {r} : operator'[q] = operator[q],
           Clean(r)' => /\ ~Up(r) /\ ~Registering(r) /\ arg = operator[r].token
                        /\ operator'[r] = operator[r]
    PROVE  BootInv'
  <1>1. /\ requests' \subseteq Request /\ IsFiniteSet(requests)'
        /\ \A q \in Robot \ {r} : RequestsOf(q)' = RequestsOf(q)
        /\ \A d \in RequestsOf(r)' : ~Waiting(d) /\ (d.step = "issue" => rows[r].known)
        /\ ~Up(r) => requests' = requests
    BY BootRequests
  <1>2. /\ agents \in [Robot -> AgentRow]
        /\ agents' = [agents EXCEPT ![r] = [at |-> "loop", arg |-> arg, token |-> arg]]
    BY DEF Boot, BootInv, BootstrapTypeOK
  <1>3. agents'[r] = [at |-> "loop", arg |-> arg, token |-> arg]
    BY <1>2
  <1>4. agents'[r] \in AgentRow /\ agents'[r].at = "loop"
        /\ agents'[r].arg = arg /\ agents'[r].token = arg
    BY <1>3 DEF AgentRow
  <1>5. agents' \in [Robot -> AgentRow] /\ \A q \in Robot \ {r} : agents'[q] = agents[q]
    BY <1>2, <1>4
  <1>6. rows' = rows /\ issued' = issued
    BY DEF Boot
  <1>7. BootstrapTypeOK'
    BY <1>1, <1>5, <1>6 DEF BootInv, BootstrapTypeOK
  <1>8. Hashed(r) /\ Waits(r) /\ Secure(r)
    BY DEF BootInv, Access
  <1>9. Hashed(r)'
    BY <1>1, <1>6, <1>8 DEF Hashed
  <1>10. Up(r)'
    BY <1>4 DEF Up
  <1>11. Waits(r)'
    BY <1>1, <1>10 DEF Waits, Waiting
  <1>12. ASSUME Clean(r)' PROVE After(r)' /\ RequestsOf(r)' = {}
    <2>1. /\ ~Up(r) /\ ~Registering(r) /\ arg = operator[r].token /\ Clean(r)
          /\ operator'[r] = operator[r]
      BY <1>12 DEF Clean
    <2>2. Before(r)
      BY <1>8, <2>1 DEF Secure
    <2>3. RequestsOf(r) = {}
      BY <2>1, <2>2 DEF Before, Registering
    <2>4. rows[r].token_hash = arg
      BY <2>1, <2>2, <2>3 DEF Before
    <2>5. RequestsOf(r)' = {}
      BY <1>1, <2>1, <2>3 DEF RequestsOf
    <2> QED
      BY <1>4, <1>6, <2>1, <2>4, <2>5 DEF After
  <1>13. Secure(r)'
    BY <1>10, <1>12 DEF Secure
  <1>14. Access(r)'
    BY <1>9, <1>11, <1>13 DEF Access
  <1> QED
    BY <1>1, <1>5, <1>6, <1>7, <1>14, OnlyRobot

LEMMA RegisterKeeps ==
    ASSUME BootInv, NEW r \in Robot, Register(r), down' = down
    PROVE  BootInv'
  <1>1. UNCHANGED <<rows, issued, agents, hurt, faults>> /\ ~Registering(r)
    BY DEF Register
  <1>2. NoToken \in Token /\ operator \in [Robot -> Operator] /\ operator[r] \in Operator
    BY DEF BootInv, BootstrapTypeOK, NoToken, Token
  <1>3. /\ requests' \subseteq Request /\ IsFiniteSet(requests)'
        /\ \A q \in Robot \ {r} : RequestsOf(q)' = RequestsOf(q)
    BY <1>2, SendType DEF Register
  <1>4. PICK c \in Request :
           /\ c.robot = r /\ c.kind = "register" /\ c.presented = NoToken
           /\ c.step = "upsert" /\ c.token = NoToken /\ c.gone = 0
           /\ RequestsOf(r)' = RequestsOf(r) \cup {c}
    BY <1>2, SendType DEF Register
  <1> DEFINE n == operator[r].registrations + 1
  <1>5. operator' = [operator EXCEPT ![r] = [token |-> NoToken, registrations |-> n,
                                             late |-> Up(r)]]
    BY <1>2 DEF Register
  <1>6. n \in 0..MaxRegister /\ Up(r) \in BOOLEAN
    BY <1>2, BootstrapAssumption DEF Register, Operator, Up
  <1> HIDE DEF n
  <1>7. operator'[r] = [token |-> NoToken, registrations |-> n, late |-> Up(r)]
    BY <1>2, <1>5
  <1>8. operator'[r] \in Operator /\ operator'[r].late = Up(r)
    BY <1>2, <1>6, <1>7 DEF Operator
  <1>9. operator' \in [Robot -> Operator] /\ \A q \in Robot \ {r} : operator'[q] = operator[q]
    BY <1>2, <1>5, <1>8
  <1>10. BootstrapTypeOK'
    BY <1>1, <1>3, <1>9 DEF BootInv, BootstrapTypeOK
  <1>11. Hashed(r) /\ Waits(r) /\ Secure(r)
    BY DEF BootInv, Access
  <1>12. Hashed(r)'
    BY <1>1, <1>4, <1>11 DEF Hashed
  <1>13. Up(r)' = Up(r)
    BY <1>1 DEF Up
  <1>14. Waits(r)'
    BY <1>1, <1>4, <1>8, <1>11, <1>13 DEF Waits, Waiting
  <1>15. ASSUME Clean(r)' PROVE ~Up(r) /\ RequestsOf(r) = {} /\ RequestsOf(r)' = {c}
    <2>1. ~Up(r) /\ Clean(r)
      BY <1>1, <1>8, <1>11, <1>15 DEF Clean, Waits
    <2>2. RequestsOf(r) = {}
      BY <1>1, <1>11, <2>1 DEF Secure, Before, Registering
    <2> QED
      BY <1>4, <2>1, <2>2
  <1>16. ASSUME Clean(r)' PROVE Before(r)'
    BY <1>4, <1>15, <1>16 DEF Before
  <1>17. Secure(r)'
    BY <1>4, <1>13, <1>15, <1>16 DEF Secure
  <1>18. Access(r)'
    BY <1>12, <1>14, <1>17 DEF Access
  <1> QED
    BY <1>1, <1>3, <1>9, <1>10, <1>18, OnlyRobot

LEMMA GiveUpKeeps ==
    ASSUME BootInv, NEW c \in requests, GiveUp(c), down' = down
    PROVE  BootInv'
  <1> DEFINE r == c.robot
  <1>1. c \in Request /\ r \in Robot /\ c \in RequestsOf(r) /\ Abandon(c) /\ c.gone = 0
        /\ UNCHANGED <<rows, issued, operator>>
    BY DEF BootInv, BootstrapTypeOK, Request, RequestsOf, GiveUp
  <1>2. /\ faults' \in 0..MaxFaults /\ hurt' \in SUBSET Robot
        /\ hurt \subseteq hurt' /\ r \in hurt'
    BY <1>1, FaultType DEF GiveUp
  <1>3. PICK new \in Request :
           /\ Replace(c, new) /\ new.robot = r /\ new.step = c.step /\ ~Waiting(new)
    BY <1>1, Abandoned
  <1>4. /\ requests' \subseteq Request /\ IsFiniteSet(requests)'
        /\ \A q \in Robot \ {r} : RequestsOf(q)' = RequestsOf(q)
        /\ RequestsOf(r)' \subseteq (RequestsOf(r) \ {c}) \cup {new}
    BY <1>3, Replaced
  <1>5. Hashed(r) /\ Waits(r)
    BY <1>1 DEF BootInv, Access
  <1>6. agents \in [Robot -> AgentRow] /\ agents[r] \in AgentRow
    BY <1>1 DEF BootInv, BootstrapTypeOK
  <1>7. agents' = IF c.kind = "heartbeat" THEN [agents EXCEPT ![r].at = "poll"] ELSE agents
    BY DEF GiveUp
  <1> HIDE DEF r
  <1>8. Hashed(r)'
    BY <1>1, <1>3, <1>4, <1>5 DEF Hashed
  <1>9. /\ agents' \in [Robot -> AgentRow] /\ \A q \in Robot \ {r} : agents'[q] = agents[q]
        /\ Waits(r)'
    <2>1. CASE c.kind = "heartbeat"
      <3>1. agents'[r] = [at |-> "poll", arg |-> agents[r].arg, token |-> agents[r].token]
        BY <1>1, <1>6, <1>7, <2>1 DEF AgentRow
      <3>2. agents'[r] \in AgentRow /\ agents'[r].at = "poll"
        BY <1>6, <3>1 DEF AgentRow
      <3>3. Waiting(c) /\ agents[r].at = "heartbeat" /\ \A d \in RequestsOf(r)' : ~Waiting(d)
        BY <1>1, <1>3, <1>4, <1>5, <2>1 DEF Waits, Waiting
      <3>4. Waits(r)'
        BY <1>1, <1>5, <3>2, <3>3 DEF Waits, Waiting, Up
      <3> QED
        BY <1>6, <1>7, <2>1, <3>2, <3>4
    <2>2. CASE c.kind # "heartbeat"
      <3>1. agents' = agents
        BY <1>7, <2>2
      <3>2. \A d \in RequestsOf(r)' : Waiting(d) => d \in RequestsOf(r)
        BY <1>3, <1>4
      <3>3. Waits(r)'
        BY <1>1, <1>5, <3>1, <3>2 DEF Waits, Waiting, Up
      <3> QED
        BY <1>6, <3>1, <3>3
    <2> QED
      BY <2>1, <2>2
  <1>10. BootstrapTypeOK'
    BY <1>1, <1>2, <1>4, <1>9 DEF BootInv, BootstrapTypeOK
  <1>11. Secure(r)'
    BY <1>2 DEF Secure, Clean
  <1>12. Access(r)'
    BY <1>8, <1>9, <1>11 DEF Access
  <1> QED
    BY <1>1, <1>2, <1>4, <1>9, <1>10, <1>12, OnlyRobot DEF r

LEMMA RestartServerKeeps ==
    ASSUME BootInv, RestartServer(Downloading), \A r \in Robot : down'[r].step = "idle"
    PROVE  BootInv'
  <1> DEFINE met == {c.robot : c \in requests} \cup Downloading
             At(r) == CASE agents[r].at = "heartbeat" -> "poll"
                        [] agents[r].at = "busy" -> "loop" [] OTHER -> agents[r].at
  <1>1. met \in SUBSET Robot
    BY DEF BootInv, BootstrapTypeOK, Request, Downloading
  <1>2. /\ faults' \in 0..MaxFaults /\ hurt' \in SUBSET Robot
        /\ hurt \subseteq hurt' /\ met \subseteq hurt'
    BY <1>1, FaultType DEF RestartServer
  <1>3. UNCHANGED <<rows, issued, operator>> /\ requests' = {}
        /\ agents' = [r \in Robot |-> [agents[r] EXCEPT !.at = At(r)]]
    BY DEF RestartServer, BootInv, BootstrapTypeOK, AgentRow
  <1>4. IsFiniteSet(requests)' /\ \A r \in Robot : RequestsOf(r)' = {}
    BY <1>3, FS_EmptySet DEF RequestsOf
  <1>5. ASSUME NEW r \in Robot
        PROVE  /\ agents'[r] \in AgentRow /\ (Up(r)' <=> Up(r))
               /\ agents'[r].arg = agents[r].arg /\ agents'[r].token = agents[r].token
    <2>1. agents[r] \in AgentRow
      BY DEF BootInv, BootstrapTypeOK
    <2>2. At(r) \in {"off", "loop", "heartbeat", "poll", "busy"}
          /\ (At(r) = "off" <=> agents[r].at = "off")
      BY <2>1 DEF AgentRow
    <2> HIDE DEF At
    <2>3. agents'[r] = [at |-> At(r), arg |-> agents[r].arg, token |-> agents[r].token]
      BY <1>3, <2>1 DEF AgentRow
    <2>4. agents'[r] \in AgentRow /\ agents'[r].at = At(r)
          /\ agents'[r].arg = agents[r].arg /\ agents'[r].token = agents[r].token
      BY <2>1, <2>2, <2>3 DEF AgentRow
    <2> QED
      BY <2>2, <2>4 DEF Up
  <1>6. agents' \in [Robot -> AgentRow]
    <2> HIDE DEF At
    <2> QED
      BY <1>3, <1>5
  <1>7. BootstrapTypeOK'
    BY <1>2, <1>3, <1>6 DEF BootInv, BootstrapTypeOK
  <1>8. ASSUME NEW r \in Robot PROVE Access(r)'
    <2>1. Hashed(r) /\ Waits(r) /\ Secure(r)
      BY DEF BootInv, Access
    <2>2. Hashed(r)'
      BY <1>3, <1>4, <2>1 DEF Hashed
    <2>3. Waits(r)'
      BY <1>3, <1>4, <1>5, <2>1 DEF Waits
    <2>4. ASSUME Clean(r)' PROVE Clean(r) /\ RequestsOf(r) = {}
      BY <1>2, <1>3, <2>4 DEF Clean, RequestsOf
    <2>5. ASSUME Clean(r)', Up(r) PROVE After(r)'
      <3>1. After(r) /\ RequestsOf(r) = {}
        BY <2>1, <2>4, <2>5 DEF Secure
      <3> QED
        BY <1>3, <1>4, <1>5, <3>1 DEF After
    <2>6. ASSUME Clean(r)', ~Up(r) PROVE Before(r)'
      <3>1. Before(r) /\ RequestsOf(r) = {}
        BY <2>1, <2>4, <2>6 DEF Secure
      <3> QED
        BY <1>3, <1>4, <3>1 DEF Before
    <2>7. Secure(r)'
      BY <1>4, <1>5, <2>5, <2>6 DEF Secure
    <2> QED
      BY <2>2, <2>3, <2>7 DEF Access
  <1> QED
    BY <1>4, <1>7, <1>8 DEF BootInv

-----------------------------------------------------------------------------
(* All together. *)

IInv == ShopInv /\ DownInv /\ BootInv

LEMMA SameShop ==
    ASSUME ShopInv, UNCHANGED shopVars
    PROVE  ShopInv' /\ SignaturesStay
  <1>1. source' = source /\ ingest' = ingest /\ shelf' = shelf
    BY DEF shopVars
  <1>2. \A k \in Release : Signature(k)' /\ Ladder(k)'
    BY <1>1 DEF ShopInv, Signature, Ladder
  <1> QED
    BY <1>1, <1>2 DEF ShopInv, ShopTypeOK, SignaturesStay

LEMMA SameBoot ==
    ASSUME BootInv, down' = down, UNCHANGED <<rows, issued, requests, agents, operator>>,
           hurt \subseteq hurt', hurt' \in SUBSET Robot, faults' \in 0..MaxFaults
    PROVE  BootInv'
  <1>1. \A r \in Robot : RequestsOf(r)' = RequestsOf(r) /\ Up(r)' = Up(r)
    BY DEF RequestsOf, Up
  <1>2. ASSUME NEW r \in Robot PROVE Access(r)'
    <2>1. Hashed(r) /\ Waits(r) /\ Secure(r)
      BY DEF BootInv, Access
    <2>2. Hashed(r)' /\ Waits(r)'
      BY <1>1, <2>1 DEF Hashed, Waits
    <2>3. (After(r) => After(r)') /\ (Before(r) => Before(r)') /\ (Clean(r)' => Clean(r))
      BY <1>1 DEF After, Before, Clean
    <2> QED
      BY <1>1, <2>1, <2>2, <2>3 DEF Access, Secure
  <1> QED
    BY <1>2 DEF BootInv, BootstrapTypeOK

LEMMA SameAll ==
    ASSUME IInv, UNCHANGED vars
    PROVE  IInv'
  <1>1. UNCHANGED shopVars /\ UNCHANGED bootVars /\ down' = down /\ disk' = disk
    BY DEF vars, artVars, shopVars
  <1>2. ShopInv' /\ DownInv'
    BY <1>1, SameShop, GotStays DEF IInv
  <1>3. hurt \subseteq hurt' /\ hurt' \in SUBSET Robot /\ faults' \in 0..MaxFaults
    BY <1>1 DEF IInv, BootInv, BootstrapTypeOK, bootVars
  <1> QED
    BY <1>1, <1>2, <1>3, SameBoot DEF IInv, bootVars

LEMMA ShopInit == ArtifactsInit => ShopInv
  <1> SUFFICES ASSUME ArtifactsInit PROVE ShopInv
    OBVIOUS
  <1>1. 1 \in Build /\ << >> \in File
    BY Files, ArtifactsAssumption DEF Build
  <1>2. ShopTypeOK
    BY <1>1 DEF ArtifactsInit, ShopTypeOK, Ingest, Shelf
  <1>3. ASSUME NEW k \in Release PROVE Signature(k) /\ Ladder(k)
    BY DEF ArtifactsInit, Signature, Ladder
  <1> QED
    BY <1>2, <1>3 DEF ShopInv

LEMMA DownInit == ArtifactsInit => DownInv
  <1> SUFFICES ASSUME ArtifactsInit PROVE DownInv
    OBVIOUS
  <1>1. << >> \in File /\ NoToken \in Token
    BY Files DEF NoToken, Token
  <1>2. PICK k \in Release :
           down = [r \in Robot |-> [step |-> "idle", release |-> k, presented |-> NoToken,
                                    sha |-> << >>, sig |-> << >>]]
    BY DEF ArtifactsInit
  <1>3. down \in [Robot -> Download]
    BY <1>1, <1>2 DEF Download
  <1>4. disk \in [Robot -> Disk]
    BY <1>1 DEF ArtifactsInit, Disk
  <1>5. ASSUME NEW r \in Robot PROVE Got(r)
    BY <1>2 DEF ArtifactsInit, Got
  <1> QED
    BY <1>3, <1>4, <1>5 DEF DownInv, DownTypeOK

LEMMA BootInit == ArtifactsInit => BootInv
  <1> SUFFICES ASSUME ArtifactsInit PROVE BootInv
    OBVIOUS
  <1>1. PICK old \in SUBSET Robot :
           rows = [r \in Robot |-> [known |-> r \in old, token_hash |-> NoToken,
                      current_version |-> IF r \in old THEN "own" ELSE "none"]]
    BY DEF ArtifactsInit, BootstrapInit
  <1>2. NoToken \in Token /\ 0 \in Nat /\ 0 \in 0..MaxFaults /\ 0 \in 0..MaxRegister
    BY BootstrapAssumption DEF NoToken, Token
  <1>3. rows \in [Robot -> Row]
    BY <1>1, <1>2 DEF Row
  <1>4. agents \in [Robot -> AgentRow]
    BY <1>2 DEF ArtifactsInit, BootstrapInit, AgentRow
  <1>5. operator \in [Robot -> Operator]
    BY <1>2 DEF ArtifactsInit, BootstrapInit, Operator
  <1>6. issued = 0 /\ faults = 0 /\ requests = {} /\ hurt = {}
    BY DEF ArtifactsInit, BootstrapInit
  <1>7. BootstrapTypeOK
    BY <1>2, <1>3, <1>4, <1>5, <1>6 DEF BootstrapTypeOK
  <1>8. IsFiniteSet(requests)
    BY <1>6, FS_EmptySet
  <1>9. ASSUME NEW r \in Robot PROVE Access(r)
    <2>1. RequestsOf(r) = {}
      BY <1>6 DEF RequestsOf
    <2>2. /\ rows[r].token_hash = NoToken /\ agents[r].at = "off"
          /\ operator[r].token = NoToken /\ ~operator[r].late
      BY <1>1 DEF ArtifactsInit, BootstrapInit
    <2>3. down[r].step = "idle"
      BY DEF ArtifactsInit
    <2>4. Hashed(r)
      BY <2>1, <2>2 DEF Hashed
    <2>5. Waits(r)
      BY <2>1, <2>2, <2>3 DEF Waits
    <2>6. Secure(r)
      BY <2>1, <2>2 DEF Secure, Before, Up
    <2> QED
      BY <2>4, <2>5, <2>6 DEF Access
  <1> QED
    BY <1>7, <1>8, <1>9 DEF BootInv

(* Steps that touch neither the shop nor a robot's disk. *)
LEMMA TokenSteps ==
    ASSUME IInv, UNCHANGED artVars,
           \/ \E r \in Robot : Heartbeat(r) \/ PollNothing(r) \/ Register(r)
           \/ \E c \in requests : HandlerStep(c) \/ Answer(c) \/ GiveUp(c)
    PROVE  IInv'
  <1>1. UNCHANGED shopVars /\ down' = down /\ disk' = disk
    BY DEF artVars, shopVars
  <1>2. ShopInv' /\ DownInv'
    BY <1>1, SameShop, GotStays DEF IInv
  <1>3. BootInv
    BY DEF IInv
  <1>4. ASSUME NEW r \in Robot, PollNothing(r) PROVE BootInv'
    <2>1. /\ agents' = [agents EXCEPT ![r].at = "loop"] /\ agents[r].at = "poll"
          /\ UNCHANGED <<rows, issued, requests, operator>>
          /\ hurt' = hurt /\ faults' = faults
      BY <1>4 DEF PollNothing
    <2>2. hurt' \in SUBSET Robot /\ faults' \in 0..MaxFaults /\ down[r].step = "idle"
      BY <1>3, <2>1 DEF BootInv, BootstrapTypeOK, Access, Waits
    <2> QED
      BY <1>1, <1>3, <2>1, <2>2, AtOnly
  <1>5. BootInv'
    BY <1>1, <1>3, <1>4, HeartbeatKeeps, RegisterKeeps, HandlerKeeps, AnswerKeeps, GiveUpKeeps
  <1> QED
    BY <1>2, <1>5 DEF IInv

LEMMA BootSteps ==
    ASSUME IInv, NEW r \in Robot, Boots(r) \/ (RestartAgent(r) /\ Killed(r))
    PROVE  IInv'
  <1>1. ShopInv /\ DownInv /\ BootInv /\ Killed(r)
    BY DEF IInv, Boots
  <1>2. ShopInv' /\ DownInv'
    BY <1>1, SameShop, KilledKeeps DEF Killed
  <1>3. /\ down'[r].step = "idle" /\ \A q \in Robot \ {r} : down'[q] = down[q]
    <2>1. down'[r] = Idle(down[r]) /\ down[r] \in Download
      BY <1>1 DEF Killed, DownInv, DownTypeOK
    <2> QED
      BY <1>1, <2>1, IdleType DEF Killed, DownInv, DownTypeOK
  <1>4. /\ hurt \in SUBSET Robot /\ faults \in 0..MaxFaults
        /\ operator[r].token \in Token /\ agents[r].arg \in Token
    BY <1>1 DEF BootInv, BootstrapTypeOK, Operator, AgentRow
  <1>5. ASSUME StartAgent(r) PROVE BootInv'
    <2>1. /\ Boot(r, operator[r].token) /\ ~Up(r) /\ UNCHANGED <<hurt, faults>>
          /\ operator' = [operator EXCEPT ![r].late = @ \/ Registering(r)]
      BY <1>5 DEF StartAgent
    <2>2. operator \in [Robot -> Operator] /\ operator[r] \in Operator
      BY <1>1 DEF BootInv, BootstrapTypeOK
    <2>3. operator'[r] = [operator[r] EXCEPT !.late = @ \/ Registering(r)]
      BY <2>1, <2>2
    <2>4. Registering(r) \in BOOLEAN
      BY DEF Registering
    <2>5. /\ operator'[r].late = (operator[r].late \/ Registering(r))
          /\ operator'[r] \in Operator
      BY <2>2, <2>3, <2>4 DEF Operator
    <2>6. ~operator'[r].late => operator'[r] = operator[r]
      BY <2>2, <2>3, <2>5 DEF Operator
    <2>7. /\ operator' \in [Robot -> Operator]
          /\ \A q \in Robot \ {r} : operator'[q] = operator[q]
      BY <2>1, <2>2, <2>5
    <2>8. Clean(r)' => ~Registering(r) /\ operator'[r] = operator[r]
      BY <2>5, <2>6 DEF Clean
    <2> QED
      BY <1>1, <1>3, <1>4, <2>1, <2>7, <2>8, BootKeeps
  <1>6. ASSUME Reprovision(r) PROVE BootInv'
    <2>1. /\ Boot(r, operator[r].token) /\ Up(r) /\ UNCHANGED <<operator, hurt, faults>>
          /\ operator[r].token # agents[r].arg
      BY <1>6 DEF Reprovision
    <2>2. operator' = operator /\ operator \in [Robot -> Operator]
      BY <1>1, <2>1 DEF BootInv, BootstrapTypeOK
    <2>3. ~Clean(r)'
      BY <1>1, <2>1, <2>2 DEF BootInv, Access, Secure, After, Clean
    <2> QED
      BY <1>1, <1>3, <1>4, <2>1, <2>2, <2>3, BootKeeps
  <1>7. ASSUME RestartAgent(r) PROVE BootInv'
    <2>1. /\ Boot(r, agents[r].arg) /\ Fault({r})
          /\ operator' = operator /\ operator \in [Robot -> Operator]
      BY <1>1, <1>7 DEF RestartAgent, BootInv, BootstrapTypeOK
    <2>2. /\ faults' \in 0..MaxFaults /\ hurt' \in SUBSET Robot
          /\ hurt \subseteq hurt' /\ r \in hurt'
      BY <1>1, <2>1, FaultType
    <2>3. ~Clean(r)'
      BY <2>2 DEF Clean
    <2> QED
      BY <1>1, <1>3, <1>4, <2>1, <2>2, <2>3, BootKeeps
  <1> QED
    BY <1>2, <1>5, <1>6, <1>7 DEF IInv, Boots

(* The end of a download sends the agent back to its loop. *)
LEMMA FinishBoot ==
    ASSUME IInv, NEW r \in Robot, Finish(r), down[r].step # "idle",
           UNCHANGED <<rows, issued, requests, operator>>,
           hurt \subseteq hurt', hurt' \in SUBSET Robot, faults' \in 0..MaxFaults
    PROVE  BootInv'
  <1>1. down'[r] = Idle(down[r]) /\ down[r] \in Download
    BY DEF Finish, IInv, DownInv, DownTypeOK
  <1>2. down'[r].step = "idle" /\ \A q \in Robot \ {r} : down'[q] = down[q]
    BY <1>1, IdleType DEF Finish, IInv, DownInv, DownTypeOK
  <1>3. agents[r].at = "busy"
    BY DEF IInv, BootInv, Access, Waits
  <1> QED
    BY <1>2, <1>3, AtOnly DEF Finish, IInv

(* A download that goes on. *)
LEMMA BusyBoot ==
    ASSUME IInv, NEW r \in Robot, agents' = agents, down[r].step # "idle",
           \A q \in Robot \ {r} : down'[q] = down[q],
           UNCHANGED <<rows, issued, requests, operator, hurt, faults>>
    PROVE  BootInv'
  <1>1. agents[r].at = "busy" /\ agents \in [Robot -> AgentRow]
    BY DEF IInv, BootInv, BootstrapTypeOK, Access, Waits
  <1>2. agents' = [agents EXCEPT ![r].at = "busy"]
    BY <1>1 DEF AgentRow
  <1>3. hurt' \in SUBSET Robot /\ faults' \in 0..MaxFaults
    BY DEF IInv, BootInv, BootstrapTypeOK
  <1> QED
    BY <1>1, <1>2, <1>3, AtOnly DEF IInv

LEMMA DownloadSteps ==
    ASSUME IInv, NEW r \in Robot, DownloadMoves(r)
    PROVE  IInv'
  <1>1. /\ UNCHANGED <<rows, issued, requests, operator>> /\ hurt' = hurt /\ faults' = faults
        /\ UNCHANGED shopVars /\ ShopInv /\ DownInv /\ ingest' = ingest
    BY DEF DownloadMoves, IInv, shopVars
  <1>2. ShopInv'
    BY <1>1, SameShop
  <1>3. hurt \subseteq hurt' /\ hurt' \in SUBSET Robot /\ faults' \in 0..MaxFaults
    BY <1>1 DEF IInv, BootInv, BootstrapTypeOK
  <1>4. down \in [Robot -> Download]
    BY <1>1 DEF DownInv, DownTypeOK
  <1>5. CASE RequireAnyRobot(r)
    <2>1. down[r].step # "idle"
      BY <1>5 DEF RequireAnyRobot
    <2>2. Finish(r) \/ (agents' = agents /\ \A q \in Robot \ {r} : down'[q] = down[q])
      BY <1>4, <1>5 DEF RequireAnyRobot
    <2>3. BootInv'
      BY <1>1, <1>3, <2>1, <2>2, FinishBoot, BusyBoot
    <2> QED
      BY <1>1, <1>2, <1>5, <2>3, RequireAnyRobotKeeps DEF IInv
  <1>6. CASE GetReleaseArtifact(r)
    <2>1. down[r].step # "idle"
      BY <1>6 DEF GetReleaseArtifact
    <2>2. Finish(r) \/ (agents' = agents /\ \A q \in Robot \ {r} : down'[q] = down[q])
      BY <1>4, <1>6 DEF GetReleaseArtifact
    <2>3. BootInv'
      BY <1>1, <1>3, <2>1, <2>2, FinishBoot, BusyBoot
    <2> QED
      BY <1>1, <1>2, <1>6, <2>3, GetReleaseArtifactKeeps DEF IInv
  <1>7. CASE OpenPart(r)
    <2>1. down[r].step # "idle" /\ agents' = agents /\ \A q \in Robot \ {r} : down'[q] = down[q]
      BY <1>4, <1>7 DEF OpenPart
    <2>2. BootInv'
      BY <1>1, <2>1, BusyBoot
    <2> QED
      BY <1>1, <1>2, <1>7, <2>2, OpenPartKeeps DEF IInv
  <1>8. CASE Land(r, Body(r))
    <2>1. down[r].step # "idle" /\ Finish(r)
      BY <1>8 DEF Land
    <2>2. BootInv'
      BY <1>1, <1>3, <2>1, FinishBoot
    <2> QED
      BY <1>1, <1>2, <1>8, <2>2, LandKeeps DEF IInv
  <1> QED
    BY <1>5, <1>6, <1>7, <1>8 DEF DownloadMoves, DownloadStep

LEMMA StartDownloadSteps ==
    ASSUME IInv, NEW r \in Robot, NEW k \in Release, StartDownload(r, k)
    PROVE  IInv'
  <1>1. /\ UNCHANGED shopVars /\ UNCHANGED <<rows, issued, requests, operator>>
        /\ hurt' = hurt /\ faults' = faults /\ agents[r].at = "poll"
        /\ agents' = [agents EXCEPT ![r].at = "busy"]
    BY DEF StartDownload, shopVars
  <1>2. agents[r].token \in Token /\ down[r].step = "idle"
        /\ hurt' \in SUBSET Robot /\ faults' \in 0..MaxFaults
    BY <1>1 DEF IInv, BootInv, BootstrapTypeOK, AgentRow, Access, Waits
  <1>3. \A q \in Robot \ {r} : down'[q] = down[q]
    BY DEF StartDownload, IInv, DownInv, DownTypeOK
  <1>4. BootInv'
    BY <1>1, <1>2, <1>3, AtOnly DEF IInv
  <1> QED
    BY <1>1, <1>2, <1>4, SameShop, StartDownloadKeeps DEF IInv

LEMMA ShopSteps ==
    ASSUME IInv, NEW k \in Release, UNCHANGED <<bootVars, down, disk>>,
           \/ CreateRelease(k) \/ HashSource(k) \/ CopyBlock(k)
           \/ SetReleaseArtifact(k) \/ Rebuild(k)
    PROVE  IInv'
  <1>1. ShopInv' /\ SignaturesStay
    BY CreateReleaseKeeps, HashSourceKeeps, CopyBlockKeeps, SetReleaseArtifactKeeps,
       RebuildKeeps DEF IInv
  <1>2. DownInv'
    BY <1>1, GotStays DEF IInv
  <1>3. BootInv'
    BY SameBoot DEF IInv, BootInv, BootstrapTypeOK, bootVars
  <1> QED
    BY <1>1, <1>2, <1>3 DEF IInv

LEMMA IngestFailsSteps ==
    ASSUME IInv, NEW k \in Release, IngestFails(k),
           UNCHANGED <<rows, issued, requests, agents, operator, down, disk>>
    PROVE  IInv'
  <1>1. /\ ingest[k].step \notin {"none", "done"} /\ source' = source /\ shelf' = shelf
        /\ ingest' = [ingest EXCEPT ![k].step = "failed"] /\ Fault({})
    BY DEF IngestFails
  <1>2. ingest' = [j \in Release |-> IF j \in {k} THEN [ingest[j] EXCEPT !.step = "failed"]
                                     ELSE ingest[j]]
    BY <1>1 DEF IInv, ShopInv, ShopTypeOK
  <1>3. ShopInv' /\ SignaturesStay
    BY <1>1, <1>2, FailedKeeps DEF IInv
  <1>4. hurt \subseteq hurt' /\ hurt' \in SUBSET Robot /\ faults' \in 0..MaxFaults
    BY <1>1, FaultType DEF IInv
  <1> QED
    BY <1>3, <1>4, GotStays, SameBoot DEF IInv

LEMMA BodySteps ==
    ASSUME IInv, NEW r \in Robot, CutBody(r) \/ BreakOff(r),
           UNCHANGED <<rows, issued, requests, operator, shopVars>>
    PROVE  IInv'
  <1>1. ShopInv' /\ SignaturesStay /\ ingest' = ingest /\ Fault({r})
    BY SameShop DEF IInv, shopVars, CutBody, BreakOff
  <1>2. hurt \subseteq hurt' /\ hurt' \in SUBSET Robot /\ faults' \in 0..MaxFaults
    BY <1>1, FaultType DEF IInv
  <1>3. CASE CutBody(r)
    <2>1. Land(r, SubSeq(Body(r), 1, 1))
      BY <1>3 DEF CutBody
    <2>2. DownInv'
      BY <1>1, <2>1, LandKeeps DEF IInv
    <2>3. Finish(r) /\ down[r].step # "idle"
      BY <2>1 DEF Land
    <2> QED
      BY <1>1, <1>2, <2>2, <2>3, FinishBoot DEF IInv
  <1>4. CASE BreakOff(r)
    <2>1. DownInv'
      BY <1>1, <1>4, CleanedKeeps DEF IInv, BreakOff
    <2>2. down \in [Robot -> Download]
      BY DEF IInv, DownInv, DownTypeOK
    <2>3. Finish(r) /\ down[r].step # "idle"
      BY <1>4, <2>2 DEF BreakOff, Cleaned, Finish
    <2> QED
      BY <1>1, <1>2, <2>1, <2>3, FinishBoot DEF IInv
  <1> QED
    BY <1>3, <1>4

LEMMA ServerSteps ==
    ASSUME IInv, ServerStops
    PROVE  IInv'
  <1> DEFINE F == {k \in Release : ingest[k].step \notin {"none", "done"}}
  <1>1. /\ RestartServer(Downloading) /\ Cleaned(Downloading)
        /\ source' = source /\ shelf' = shelf /\ Downloading \in SUBSET Robot
    BY DEF ServerStops, Downloading
  <1>2. ingest' = [k \in Release |-> IF k \in F THEN [ingest[k] EXCEPT !.step = "failed"]
                                     ELSE ingest[k]]
    BY DEF ServerStops
  <1>7. F \in SUBSET Release /\ \A k \in F : ingest[k].step \notin {"none", "done"}
    OBVIOUS
  <1> HIDE DEF F
  <1>3. ShopInv' /\ SignaturesStay
    BY <1>1, <1>2, <1>7, FailedKeeps DEF IInv
  <1>4. DownInv'
    BY <1>1, <1>3, CleanedKeeps DEF IInv
  <1>5. ASSUME NEW r \in Robot PROVE down'[r].step = "idle"
    BY <1>1, IdleType DEF Cleaned, Downloading, IInv, DownInv, DownTypeOK
  <1>6. BootInv'
    BY <1>1, <1>5, RestartServerKeeps DEF IInv
  <1> QED
    BY <1>3, <1>4, <1>6 DEF IInv

LEMMA NextKeeps == IInv /\ [Next]_vars => IInv'
  <1> SUFFICES ASSUME IInv, [Next]_vars PROVE IInv'
    OBVIOUS
  <1>1. ASSUME NEW r \in Robot, NEW kind \in {"heartbeat", "register"},
               NEW waited \in BOOLEAN, HandlersOf(r, kind, waited)
        PROVE  IInv'
    BY <1>1, TokenSteps DEF HandlersOf, RequestsOf
  <1>2. ASSUME NEW r \in Robot, AgentLoop(r) PROVE IInv'
    BY <1>2, TokenSteps DEF AgentLoop
  <1>3. ASSUME NEW r \in Robot, Boots(r) \/ DownloadMoves(r) PROVE IInv'
    BY <1>3, BootSteps, DownloadSteps
  <1>4. ASSUME NEW r \in Robot, NEW k \in Release, StartDownload(r, k) PROVE IInv'
    BY <1>4, StartDownloadSteps
  <1>5. ASSUME NEW k \in Release, IngestStep(k) PROVE IInv'
    BY <1>5, ShopSteps DEF IngestStep
  <1>6. ASSUME OperatorStep PROVE IInv'
    BY <1>6, TokenSteps, ShopSteps DEF OperatorStep
  <1>7. ASSUME FaultStep PROVE IInv'
    BY <1>7, ServerSteps, BootSteps, TokenSteps, IngestFailsSteps, BodySteps DEF FaultStep
  <1> QED
    BY <1>1, <1>2, <1>3, <1>4, <1>5, <1>6, <1>7, SameAll DEF Next

(* The inductive invariant holds: the shop, the downloads, the tokens.      *)
THEOREM ArtifactsInvariant == Spec => []IInv
  <1>1. ArtifactsInit => IInv
    BY ShopInit, DownInit, BootInit DEF IInv
  <1> QED
    BY <1>1, NextKeeps, PTL DEF Spec

(* Every variable of modules Bootstrap and Artifacts stays in its range.   *)
THEOREM ArtifactsTypeCorrect == Spec => []ArtifactsTypeOK
  <1>1. IInv => ArtifactsTypeOK
    BY DEF IInv, ShopInv, ShopTypeOK, DownInv, DownTypeOK, BootInv, ArtifactsTypeOK
  <1> QED
    BY <1>1, ArtifactsInvariant, PTL

(* What lies in an artifact directory is whole and signed by the operator  *)
(* (secure_update.py:31-48, 71-88), whatever was cut, overwritten or       *)
(* restarted on the way.                                                   *)
THEOREM LandedVerifiedHolds == Spec => []LandedVerified
  <1>1. IInv => LandedVerified
    <2> SUFFICES ASSUME IInv, NEW r \in Robot, NEW k \in Release, disk[r].final[k] # << >>
                 PROVE  disk[r].final[k] = ingest[k].sig /\ Len(disk[r].final[k]) = 2
      BY DEF LandedVerified
    <2>1. disk[r].final[k] = ingest[k].sig
      BY DEF IInv, DownInv, Got
    <2>2. PICK b \in Build : ingest[k].sig = Tarball(b)
      BY <2>1 DEF IInv, ShopInv, Signature
    <2> QED
      BY <2>1, <2>2, Files DEF Tarball
  <1> QED
    BY <1>1, ArtifactsInvariant, PTL

(* A checksum that is served belongs to a complete copy (artifacts.py:41-45). *)
THEOREM ServedWholeHolds == Spec => []ServedWhole
  <1>1. IInv => ServedWhole
    <2> SUFFICES ASSUME IInv, NEW k \in Release, shelf[k].sha # << >>
                 PROVE  /\ Len(shelf[k].file) = 2
                        /\ shelf[k].file = shelf[k].sha \/ shelf[k].sha # Tarball(source[k])
      BY DEF ServedWhole
    <2>1. Ladder(k) /\ source[k] \in Build
      BY DEF IInv, ShopInv, ShopTypeOK
    <2>2. ingest[k].step = "done" /\ shelf[k].sha = ingest[k].sha
      BY <2>1 DEF Ladder
    <2>3. PICK b, c, d \in 1..source[k] :
             b <= c /\ c <= d /\ ingest[k].sha = Tarball(b) /\ shelf[k].file = <<c, d>>
      BY <2>1, <2>2 DEF Ladder
    <2>4. b \in Build /\ c \in Build /\ d \in Build
      BY <2>1, ArtifactsAssumption DEF Build
    <2>5. Len(shelf[k].file) = 2
      BY <2>3, <2>4, Files
    <2>6. Tarball(b) = Tarball(source[k]) => b = source[k]
      BY <2>1 DEF Tarball
    <2>7. b = source[k] => c = b /\ d = b
      BY <2>1, <2>3 DEF Build
    <2>8. Tarball(b) = Tarball(source[k]) => shelf[k].file = shelf[k].sha
      BY <2>2, <2>3, <2>6, <2>7 DEF Tarball
    <2> QED
      BY <2>2, <2>3, <2>5, <2>8
  <1> QED
    BY <1>1, ArtifactsInvariant, PTL

(* A .part file has a running download (secure_update.py:86-96). *)
THEOREM PartsHaveOwnersHolds == Spec => []PartsHaveOwners
  <1>1. IInv => PartsHaveOwners
    BY DEF IInv, DownInv, Got, PartsHaveOwners
  <1> QED
    BY <1>1, ArtifactsInvariant, PTL

(* Without a fault or a registration after its start, a robot that runs is *)
(* never refused: it holds the token on record, or the answer that carries *)
(* it is on its way (app.py:129-150).                                      *)
THEOREM LockedOutOnlyByFaultHolds == Spec => []LockedOutOnlyByFault
  <1>1. IInv => LockedOutOnlyByFault
    <2> SUFFICES ASSUME IInv, NEW r \in Robot, Up(r), Clean(r)
                 PROVE  \/ rows[r].token_hash \in {NoToken, agents[r].token}
                        \/ \E c \in RequestsOf(r) : c.gone = 0 /\ c.token = rows[r].token_hash
      BY DEF LockedOutOnlyByFault, Clean
    <2>1. Secure(r)
      BY DEF IInv, BootInv, Access
    <2>2. After(r) /\ \A c \in RequestsOf(r) : c.gone = 0
      BY <2>1 DEF Secure
    <2> QED
      BY <2>2 DEF After
  <1> QED
    BY <1>1, ArtifactsInvariant, PTL
=============================================================================
