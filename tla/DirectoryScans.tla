--------------------------- MODULE DirectoryScans ---------------------------
(***************************************************************************)
(* The home directory of a user on the storage node, the rows of           *)
(* user_directory_scans that remember what its directories list, and the   *)
(* scans, uploads, deletions and container syncs that change either.       *)
(*                                                                         *)
(* The directories are a chain: 0 is the home, and n + 1 lies in n.        *)
(***************************************************************************)
EXTENDS Naturals, FiniteSets

CONSTANTS
  Depth,    \* the number of the deepest directory
  File,     \* names of files, each of size 1
  Sub,      \* the entry that the next directory is
  Quota,    \* storage_quota_gb, when there is one
  Scan,     \* scan tasks
  Thread,   \* requests that are handled at the same time
  MaxAsked, \* bound on uploads, deletions and syncs
  MaxFaults \* bound on failed commands and lost reports

(* A directory is no file; a quota of 0 is none, and nothing is measured.  *)
Parameters ==
  /\ Depth \in Nat /\ Quota \in Nat \ {0}
  /\ IsFiniteSet(File) /\ Sub \notin File
  /\ MaxAsked \in Nat /\ MaxFaults \in Nat

VARIABLES
  disk,     \* the entries of a directory
  row,      \* status of the row of a directory, or that there is none
  shown,    \* its entries
  scan,     \* a scan task: its directory, how far it is, what it has seen
  job,      \* what a request does, its directory, what is left, what it saw
  asked,    \* how much of MaxAsked is used
  faults,   \* how much of MaxFaults is used
  overlap,  \* history: two uploads, or an upload and a sync, overlapped
  stale,    \* history: directories a change of which no row was told
  blindly   \* history: how many files were let in without a measurement

vars == <<disk, row, shown, scan, job, asked, faults, overlap, stale, blindly>>

Dir == 0..Depth
Listing == SUBSET (File \cup {Sub})
Beneath(d) == {e \in Dir : e > d}

NoScan == [dir |-> 0, at |-> "none", seen |-> {}]
NoJob == [does |-> "none", dir |-> 0, into |-> 0, left |-> {}, seen |-> {}]

Init ==
  /\ disk = [d \in Dir |-> {}]
  /\ row = [d \in Dir |-> "none"]
  /\ shown = [d \in Dir |-> {}]
  /\ scan = [s \in Scan |-> NoScan]
  /\ job = [t \in Thread |-> NoJob]
  /\ asked = 0 /\ faults = 0
  /\ overlap = FALSE
  /\ stale = {} /\ blindly = 0

Usage == Cardinality({p \in Dir \X File : p[2] \in disk[p[1]]})
Fault == faults < MaxFaults /\ faults' = faults + 1

(* A listing of d was read and is still on its way to the row.             *)
OnItsWay(d) == \/ \E s \in Scan : scan[s].at = "read" /\ scan[s].dir = d
               \/ \E t \in Thread : job[t].does = "listed" /\ job[t].dir = d

(* The directories become new; no row is told of those in untold.          *)
Changes(new, untold) ==
  /\ disk' = new
  /\ stale' = stale \cup untold \cup {d \in Dir : new[d] # disk[d] /\ OnItsWay(d)}

(* mkdir -p of d *)
Made(d) == [e \in Dir |-> IF e < d THEN disk[e] \cup {Sub} ELSE disk[e]]

-----------------------------------------------------------------------------
(* Scans *)

RequestScan(s, d) ==
  /\ scan[s].at = "none"
  /\ scan' = [scan EXCEPT ![s] = [dir |-> d, at |-> "queued", seen |-> {}]]
  /\ row' = [row EXCEPT ![d] = "scanning"]
  /\ UNCHANGED <<disk, shown, job, asked, faults, overlap, stale, blindly>>

There(d) == d # 0 => Sub \in disk[d - 1]

ReadDirectory(s) ==
  /\ scan[s].at = "queued" /\ There(scan[s].dir)
  /\ scan' = [scan EXCEPT ![s].at = "read", ![s].seen = disk[scan[s].dir]]
  /\ UNCHANGED <<disk, row, shown, job, asked, faults, overlap, stale, blindly>>

(* The report is lost: the task is claimed and executed again.             *)
ScanLost(s) ==
  /\ scan[s].at = "read"
  /\ Fault
  /\ scan' = [scan EXCEPT ![s].at = "queued"]
  /\ UNCHANGED <<disk, row, shown, job, asked, overlap, stale, blindly>>

Ended(s) == [scan EXCEPT ![s].at = "done", ![s].seen = {}]
HasRow(d) == row[d] # "none"

ScanSucceeds(s) ==
  /\ scan[s].at = "read"
  /\ scan' = Ended(s)
  /\ LET d == scan[s].dir
     IN IF HasRow(d) THEN /\ row' = [row EXCEPT ![d] = "ready"]
                          /\ shown' = [shown EXCEPT ![d] = scan[s].seen]
                     ELSE UNCHANGED <<row, shown>>
  /\ UNCHANGED <<disk, job, asked, faults, overlap, stale, blindly>>

ScanFails(s) ==
  /\ scan[s].at = "queued"
  /\ IF There(scan[s].dir) THEN Fault ELSE UNCHANGED faults
  /\ scan' = Ended(s)
  /\ row' = IF HasRow(scan[s].dir) THEN [row EXCEPT ![scan[s].dir] = "failed"] ELSE row
  /\ UNCHANGED <<disk, shown, job, asked, overlap, stale, blindly>>

-----------------------------------------------------------------------------
(* Uploads *)

Becomes(t, j) == job' = [job EXCEPT ![t] = j]
Busy(K) == \E t \in Thread : job[t].does \in K
Ask(t) == job[t].does = "none" /\ asked < MaxAsked /\ asked' = asked + 1
Drop(D) == row' = [d \in Dir |-> IF d \in D THEN "none" ELSE row[d]]

(* Nothing is there, as far as is known.                                   *)
FitsAlone(files) == Cardinality(files) <= Quota
(* What is there now and what comes together stay below the quota.         *)
Fits(files) == Usage + Cardinality(files) <= Quota

(* Files for d, some of them in a directory below it; the directory is     *)
(* measured once, at the start.  A measurement that fails counts as 0.     *)
BeginUpload(t, d, into, files) ==
  /\ Ask(t)
  /\ into >= d
  /\ \/ Fits(files) /\ UNCHANGED <<faults, blindly>>
     \/ Fault /\ FitsAlone(files) /\ blindly' = blindly + Cardinality(files)
  /\ Becomes(t, [NoJob EXCEPT !.does = "upload", !.dir = d, !.into = into,
                              !.left = files])
  /\ Changes(Made(d), {e \in Dir : e < d /\ Made(d)[e] # disk[e]})
  /\ overlap' = (overlap \/ Busy({"upload", "sync"}))
  /\ UNCHANGED <<row, shown, scan>>

(* mkdir -p, a temporary file, mv -f                                       *)
WriteFile(t, f) ==
  /\ job[t].does = "upload" /\ f \in job[t].left
  /\ LET d == job[t].into
         new == [Made(d) EXCEPT ![d] = @ \cup {f}]
     IN Changes(new, {e \in Dir : e < job[t].dir /\ new[e] # disk[e]})
  /\ job' = [job EXCEPT ![t].left = @ \ {f}]
  /\ UNCHANGED <<row, shown, scan, asked, faults, overlap, blindly>>

(* An exception ends the request: what was written stays, the rows too.    *)
UploadFails(t) ==
  /\ job[t].does = "upload"
  /\ Fault
  /\ Becomes(t, NoJob)
  /\ stale' = stale \cup {job[t].dir} \cup (job[t].dir .. job[t].into)
  /\ UNCHANGED <<disk, row, shown, scan, asked, overlap, blindly>>

ListTarget(t) ==
  /\ job[t].does = "upload" /\ job[t].left = {}
  /\ Becomes(t, [job[t] EXCEPT !.does = "listed", !.seen = disk[job[t].dir]])
  /\ UNCHANGED <<disk, row, shown, scan, asked, faults, overlap, stale, blindly>>

(* Mutant: the rows of the directories below are kept. *)
FinishUploadHere(t) ==
  /\ job[t].does = "listed"
  /\ row' = [row EXCEPT ![job[t].dir] = "ready"]
  /\ shown' = [shown EXCEPT ![job[t].dir] = job[t].seen]
  /\ Becomes(t, NoJob)
  /\ UNCHANGED <<disk, scan, asked, faults, overlap, stale, blindly>>

(* The rows of the target and of everything below it go, and the target's  *)
(* comes back with what was listed.                                        *)
FinishUpload(t) ==
  /\ job[t].does = "listed"
  /\ LET d == job[t].dir
     IN /\ row' = [e \in Dir |-> IF e = d THEN "ready" ELSE IF e > d THEN "none" ELSE row[e]]
        /\ shown' = [shown EXCEPT ![d] = job[t].seen]
  /\ Becomes(t, NoJob)
  /\ UNCHANGED <<disk, scan, asked, faults, overlap, stale, blindly>>

-----------------------------------------------------------------------------
(* Deletions, and files that come from a container *)

(* The directories from c on are gone, and what is lost of those above.    *)
Without(c, lost) ==
  [e \in Dir |-> IF e >= c THEN {}
                 ELSE {x \in disk[e] : <<e, x>> \notin lost /\ ~(x = Sub /\ e = c - 1)}]

(* rm -rf; the rows are told of afterwards, those below the parent and the *)
(* directory itself never.                                                 *)
Remove(t, d) ==
  /\ Ask(t)
  /\ d # 0 /\ There(d)
  /\ Changes(Without(d, {}), Beneath(d))
  /\ Becomes(t, [NoJob EXCEPT !.does = "removed", !.dir = d])
  /\ UNCHANGED <<row, shown, scan, faults, overlap, blindly>>

(* It fails, or the connection to the node does, when some or all of the   *)
(* directory is gone: the request ends, and no row is told.                *)
RemoveFails(t, d) ==
  /\ Ask(t)
  /\ d # 0 /\ There(d)
  /\ Fault
  /\ \E c \in d..(Depth + 1), lost \in SUBSET ((d..Depth) \X File) :
       LET new == Without(c, lost) IN Changes(new, {e \in Dir : new[e] # disk[e]})
  /\ UNCHANGED <<row, shown, scan, job, overlap, blindly>>

FinishRemove(t) ==
  /\ job[t].does = "removed"
  /\ Drop({job[t].dir, job[t].dir - 1})
  /\ Becomes(t, NoJob)
  /\ UNCHANGED <<disk, shown, scan, asked, faults, overlap, stale, blindly>>

(* A sync of the home from a container to storage copies a file, and its   *)
(* result drops every row; its failure drops none.                         *)
SyncHome(t, d, f) ==
  /\ Ask(t)
  /\ Changes([Made(d) EXCEPT ![d] = @ \cup {f}], {})
  /\ Becomes(t, [NoJob EXCEPT !.does = "sync", !.dir = d])
  /\ overlap' = TRUE
  /\ UNCHANGED <<row, shown, scan, faults, blindly>>

SyncHomeEnds(t) ==
  /\ job[t].does = "sync"
  /\ \/ Drop(Dir) /\ UNCHANGED <<faults, stale>>
     \/ Fault /\ stale' = Dir /\ UNCHANGED row
  /\ Becomes(t, NoJob)
  /\ UNCHANGED <<disk, shown, scan, asked, overlap, blindly>>

-----------------------------------------------------------------------------
Next ==
  \/ \E s \in Scan :
       \/ \E d \in Dir : RequestScan(s, d)
       \/ ReadDirectory(s) \/ ScanLost(s) \/ ScanSucceeds(s) \/ ScanFails(s)
  \/ \E t \in Thread :
       \/ \E d, into \in Dir, files \in SUBSET File \ {{}} : BeginUpload(t, d, into, files)
       \/ \E f \in File : WriteFile(t, f)
       \/ UploadFails(t) \/ ListTarget(t) \/ FinishUpload(t)
       \/ \E d \in Dir : Remove(t, d) \/ RemoveFails(t, d)
       \/ FinishRemove(t)
       \/ \E d \in Dir, f \in File : SyncHome(t, d, f)
       \/ SyncHomeEnds(t)

Spec == Init /\ [][Next]_vars

-----------------------------------------------------------------------------
(* Properties *)

TypeOK ==
  /\ disk \in [Dir -> Listing]
  /\ row \in [Dir -> {"none", "scanning", "ready", "failed"}]
  /\ shown \in [Dir -> Listing]
  /\ \A s \in Scan : scan[s].dir \in Dir /\ scan[s].seen \in Listing
                     /\ scan[s].at \in {"none", "queued", "read", "done"}
  /\ \A t \in Thread : job[t].does \in {"none", "upload", "listed", "removed", "sync"}
                       /\ job[t].left \in SUBSET File /\ job[t].seen \in Listing
  /\ asked \in 0..MaxAsked /\ faults \in 0..MaxFaults
  /\ stale \subseteq Dir /\ blindly \in Nat

(* When nothing is under way, a row that is ready shows what is in its     *)
(* directory: a late scan, an upload and a deletion that finish in any     *)
(* order leave a wrong one only in the directories known to be untold.     *)
(* And a row that says scanning has a scan that will say otherwise.        *)
RowsAreTrue ==
  /\ (\A t \in Thread : job[t].does = "none") =>
       \A d \in Dir : row[d] = "ready" /\ d \notin stale => shown[d] = disk[d]
  /\ \A d \in Dir : row[d] = "scanning" =>
       \E s \in Scan : scan[s].dir = d /\ scan[s].at \in {"queued", "read"}

(* Uploads that do not overlap keep a home within its quota, whatever is   *)
(* replaced, deleted or fails half way between them, until a sync from a   *)
(* container, which nothing limits; files that came in when the home could *)
(* not be measured are beyond it, and nothing else is.                     *)
UploadsWithinQuota == ~overlap => Usage <= Quota + blindly
=============================================================================
