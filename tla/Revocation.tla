----------------------------- MODULE Revocation -----------------------------
(***************************************************************************)
(* From the peer directory to the sessions of a running server: the        *)
(* commands `qcat peer add' and `qcat peer remove' (internal/config), the  *)
(* server's reload of its authorizations every second (cmd/qcat) and the   *)
(* sweep of invalid sessions, every second on a ticker of its own          *)
(* (third_party/tailcat).                                                  *)
(*                                                                         *)
(* The server reads the directory one file at a time while a command       *)
(* changes it; the operator runs one command at a time.  A name is a       *)
(* number: os.ReadDir returns the names in order.  A second has Period     *)
(* units of time; reading and sweeping take none.                          *)
(***************************************************************************)
EXTENDS Integers

CONSTANTS
    Identity,          \* peer identities
    Name,              \* names of descriptors, n.qpeer
    NoFile, Partial,   \* no file; a file created and not yet written
    NoJob,             \* no command is running
    Period,            \* both tickers' period (1 s)
    MaxFailures,       \* failed reloads before everyone is revoked (3)
    MaxAge             \* bound of the model: ages saturate here

ASSUME NameAssumption == Name \subseteq Nat
ASSUME FileAssumption == NoFile # Partial /\ NoFile \notin Identity /\ Partial \notin Identity
ASSUME JobAssumption == NoJob \notin [name : Name, id : Identity]
ASSUME PeriodAssumption ==
    Period \in Nat \ {0} /\ MaxFailures \in Nat \ {0} /\ MaxAge \in Nat

VARIABLES
    file,        \* file[n]: what n.qpeer holds
    backup,      \* the names n with an n.qpeer.revoked
    pc,          \* what the command and the server are doing
    job,         \* the descriptor that the command adds or removes
    scan,        \* scan[p]: the directory entries p has still to read, and what it read
    authorized,  \* the identities the handshake accepts
    failures,    \* failed reloads in a row
    sessions,    \* the identities with an installed session
    reloadIn, sweepIn,   \* time to the next tick of either ticker
    gone,        \* gone[i]: time since i was last named by a descriptor
    quiet        \* time since the directory last changed

dirVars   == <<file, backup, gone, quiet>>
serveVars == <<authorized, failures, sessions, reloadIn, sweepIn>>
vars == <<dirVars, pc, job, scan, serveVars>>

Proc == {"admin", "serve"}
Scan == [left : SUBSET Name, read : SUBSET Identity]
NoScan == [left |-> {}, read |-> {}]

TypeOK ==
    /\ file \in [Name -> Identity \cup {NoFile, Partial}]
    /\ backup \subseteq Name
    /\ pc \in [Proc -> {"idle", "scan", "create", "write"}]
    /\ job \in [name : Name, id : Identity] \cup {NoJob}
    /\ job = NoJob <=> pc["admin"] = "idle"
    /\ scan \in [Proc -> Scan]
    /\ authorized \subseteq Identity /\ sessions \subseteq Identity
    /\ failures \in Nat
    /\ reloadIn \in 0..Period /\ sweepIn \in 0..Period
    /\ gone \in [Identity -> 0..MaxAge] /\ quiet \in 0..MaxAge

\* The server starts with the descriptors it finds (main.go, 299-307); the
\* two tickers start at different times.
Init ==
    /\ file \in [Name -> Identity \cup {NoFile}]
    /\ \A m, n \in Name : file[m] = file[n] /\ file[m] # NoFile => m = n
    /\ backup = {}
    /\ pc = [p \in Proc |-> "idle"]
    /\ job = NoJob
    /\ scan = [p \in Proc |-> NoScan]
    /\ authorized = {file[n] : n \in Name} \ {NoFile}
    /\ failures = 0 /\ sessions = {}
    /\ reloadIn = Period /\ sweepIn \in 1..Period
    /\ gone = [i \in Identity |-> IF i \in authorized THEN 0 ELSE MaxAge]
    /\ quiet = 0

-----------------------------------------------------------------------------
(***************************************************************************)
(* Store.Peers: list the directory, then read one descriptor after the     *)
(* other.  A listed file that has been renamed, or is not written yet,     *)
(* fails the whole call.                                                   *)
(***************************************************************************)

Present  == {n \in Name : file[n] # NoFile}
First(S) == {n \in S : \A m \in S : n <= m}
Goto(p, l) == pc' = [pc EXCEPT ![p] = l]

ReadDir(p) ==
    /\ pc[p] = "idle" /\ Goto(p, "scan")
    /\ scan' = [scan EXCEPT ![p] = [left |-> Present, read |-> {}]]

ReadPeer(p) ==
    /\ pc[p] = "scan"
    /\ \E n \in First(scan[p].left) :
         /\ file[n] \in Identity
         /\ scan' = [scan EXCEPT ![p] = [left |-> @.left \ {n}, read |-> @.read \cup {file[n]}]]
    /\ UNCHANGED <<dirVars, pc, job, serveVars>>

PeersFailed(p) ==
    pc[p] = "scan" /\ \E n \in First(scan[p].left) : file[n] \notin Identity
PeersRead(p) == pc[p] = "scan" /\ scan[p].left = {}

Returns(p) ==
    /\ Goto(p, "idle") /\ scan' = [scan EXCEPT ![p] = NoScan]
    /\ job' = IF p = "admin" THEN NoJob ELSE job

-----------------------------------------------------------------------------
(***************************************************************************)
(* The commands.                                                           *)
(***************************************************************************)

\* The directory changes: f is what it holds now.
Changes(f) ==
    /\ file' = f /\ quiet' = 0
    /\ gone' = [i \in Identity |-> IF \E n \in Name : i \in {file[n], f[n]} THEN 0 ELSE gone[i]]

Add(n, i) ==
    /\ ReadDir("admin") /\ job' = [name |-> n, id |-> i]
    /\ UNCHANGED <<dirVars, serveVars>>

\* The identity is paired already, under this name or another.
Paired == job.id \in scan["admin"].read

AddRefused ==
    /\ PeersFailed("admin") \/ (PeersRead("admin") /\ Paired)
    /\ Returns("admin") /\ UNCHANGED <<dirVars, serveVars>>

AddChecked ==
    /\ PeersRead("admin") /\ ~Paired
    /\ Goto("admin", "create") /\ UNCHANGED <<dirVars, job, scan, serveVars>>

\* WriteNew creates the file with O_EXCL: a descriptor is never overwritten.
WriteNewCreate ==
    /\ pc["admin"] = "create"
    /\ IF file[job.name] = NoFile
       THEN Changes([file EXCEPT ![job.name] = Partial]) /\ Goto("admin", "write") /\ UNCHANGED <<job, scan>>
       ELSE Returns("admin") /\ UNCHANGED <<file, gone, quiet>>
    /\ UNCHANGED <<backup, serveVars>>

\* The file is written and synced, or removed again because that failed.
WriteNewWrite ==
    /\ pc["admin"] = "write"
    /\ \E f \in {job.id, NoFile} : Changes([file EXCEPT ![job.name] = f])
    /\ Returns("admin") /\ UNCHANGED <<backup, serveVars>>

\* Remove reads the descriptor and looks for an earlier backup, then renames.
Remove(n) ==
    /\ pc["admin"] = "idle" /\ file[n] \in Identity /\ n \notin backup
    /\ Changes([file EXCEPT ![n] = NoFile]) /\ backup' = backup \cup {n}
    /\ UNCHANGED <<pc, job, scan, serveVars>>

\* A command is killed; what it has done so far remains.
Killed ==
    /\ pc["admin"] # "idle" /\ Returns("admin")
    /\ UNCHANGED <<dirVars, serveVars>>

\* The operator moves a backup away, or deletes what a killed command left.
Repair(n) ==
    /\ pc["admin"] = "idle"
    /\ \/ n \in backup /\ backup' = backup \ {n} /\ UNCHANGED <<file, gone, quiet>>
       \/ file[n] = Partial /\ Changes([file EXCEPT ![n] = NoFile]) /\ UNCHANGED backup
    /\ UNCHANGED <<pc, job, scan, serveVars>>

-----------------------------------------------------------------------------
(***************************************************************************)
(* The server.                                                             *)
(***************************************************************************)

\* The reload ticker fires, and Peers begins.
ReloadTick ==
    /\ reloadIn = 0 /\ ReadDir("serve")
    /\ UNCHANGED <<dirVars, job, serveVars>>

BugReloadFailed ==
    /\ PeersFailed("serve")
    /\ failures' = IF failures < MaxFailures THEN failures + 1 ELSE failures
    /\ authorized' = IF failures < MaxFailures THEN authorized ELSE {}
    /\ reloadIn' = Period /\ Returns("serve")
    /\ UNCHANGED <<dirVars, sessions, sweepIn>>

\* reloadAuthorizations keeps the last good set, until the third failure.
ReloadFailed ==
    /\ PeersFailed("serve")
    /\ failures' = IF failures < MaxFailures THEN failures + 1 ELSE failures
    /\ authorized' = IF failures + 1 < MaxFailures THEN authorized ELSE {}
    /\ reloadIn' = Period /\ Returns("serve")
    /\ UNCHANGED <<dirVars, sessions, sweepIn>>

BugReloaded ==
    /\ PeersRead("serve")
    /\ failures' = 0 /\ authorized' = IF failures = 0 THEN scan["serve"].read ELSE authorized
    /\ reloadIn' = Period /\ Returns("serve")
    /\ UNCHANGED <<dirVars, sessions, sweepIn>>

Reloaded ==
    /\ PeersRead("serve")
    /\ failures' = 0 /\ authorized' = scan["serve"].read
    /\ reloadIn' = Period /\ Returns("serve")
    /\ UNCHANGED <<dirVars, sessions, sweepIn>>

\* A client of an authorized identity completes the handshake.
Admit(i) ==
    /\ i \in authorized \ sessions /\ sessions' = sessions \cup {i}
    /\ UNCHANGED <<dirVars, pc, job, scan, authorized, failures, reloadIn, sweepIn>>

BugSweep ==
    /\ sweepIn = 0 /\ sweepIn' = Period
    /\ sessions' = IF failures = 0 THEN sessions \cap authorized ELSE sessions
    /\ UNCHANGED <<dirVars, pc, job, scan, authorized, failures, reloadIn>>

\* The worker's ticker: a session is valid while its identity is authorized.
Sweep ==
    /\ sweepIn = 0 /\ sessions' = sessions \cap authorized /\ sweepIn' = Period
    /\ UNCHANGED <<dirVars, pc, job, scan, authorized, failures, reloadIn>>

\* Time passes while nothing is due.
older(a) == IF a < MaxAge THEN a + 1 ELSE a
Named(i) == \E n \in Name : file[n] = i
Tick ==
    /\ reloadIn > 0 /\ sweepIn > 0 /\ pc["serve"] = "idle"
    /\ reloadIn' = reloadIn - 1 /\ sweepIn' = sweepIn - 1
    /\ gone' = [i \in Identity |-> IF Named(i) THEN 0 ELSE older(gone[i])]
    /\ quiet' = older(quiet)
    /\ UNCHANGED <<file, backup, pc, job, scan, authorized, failures, sessions>>

Next ==
    \/ \E n \in Name, i \in Identity : Add(n, i)
    \/ \E p \in Proc : ReadPeer(p)
    \/ AddRefused \/ AddChecked \/ WriteNewCreate \/ WriteNewWrite
    \/ \E n \in Name : Remove(n) \/ Repair(n)
    \/ Killed
    \/ ReloadTick \/ ReloadFailed \/ Reloaded
    \/ \E i \in Identity : Admit(i)
    \/ Sweep \/ Tick

Spec == Init /\ [][Next]_vars

-----------------------------------------------------------------------------
(***************************************************************************)
(* What revocation promises.                                               *)
(***************************************************************************)

\* A session outlives the removal of its identity by at most
\* MaxFailures + 1 periods, whatever fails meanwhile: every reload that fails
\* brings the revocation of everyone nearer (authorization.go, 39-42), and
\* the sweep comes within a period of that.
RevokedInTime ==
    \A i \in sessions : gone[i] <= (MaxFailures + 1) * Period

\* The stronger promise of `qcat peer remove': "Running servers revoke
\* sessions within two seconds" (main.go, 208).  The code does not keep it:
\* the authorizations survive reloads that fail (authorization.go, 39).
RevokedWithinTwo ==
    \A i \in sessions : gone[i] <= 2 * Period

\* The identities that the directory names.
Described == {file[n] : n \in Name} \ {NoFile, Partial}
Unreadable == \E n \in Name : file[n] = Partial

\* An unchanged directory is reflected within a period, and a directory
\* that cannot be read revokes everyone within MaxFailures periods, from
\* every state that failed reloads and interrupted commands can leave.
Converges ==
    IF Unreadable THEN quiet > MaxFailures * Period => authorized = {}
    ELSE quiet > Period => authorized = Described

-----------------------------------------------------------------------------
\* The timing behind RevokedInTime: an identity that is authorized without a
\* descriptor has lost it since the last reload, or since as many reloads
\* before that as have failed; a session without authorization is swept
\* within a period.
Due(i) ==
    /\ i \in authorized =>
         failures < MaxFailures /\ gone[i] + reloadIn <= (failures + 1) * Period
    /\ i \in sessions \ authorized => gone[i] + sweepIn <= (MaxFailures + 1) * Period
    /\ Named(i) \/ i \in scan["serve"].read => gone[i] = 0

\* The server reads the directory only at a tick, and forgets what it read.
ServeScans ==
    \/ pc["serve"] = "idle" /\ scan["serve"] = NoScan
    \/ pc["serve"] = "scan" /\ reloadIn = 0

DeadlineInv == TypeOK /\ ServeScans /\ \A i \in Identity : Due(i)

\* What the server has read, and what it has left to read, make up the
\* directory, unless that has changed since the reload began; a reload takes
\* no time.
ScanFollows ==
    pc["serve"] = "scan" /\ quiet > 0 =>
      /\ scan["serve"].left \subseteq Present
      /\ \A n \in Present \ scan["serve"].left : file[n] \in scan["serve"].read
      /\ scan["serve"].read \subseteq Described

\* The timing behind Converges: until the authorizations are those of the
\* directory, or nobody's when it cannot be read, the reload that makes them
\* so is still ahead.
Reflected ==
    IF Unreadable THEN authorized = {} \/ quiet + reloadIn <= (failures + 1) * Period
    ELSE authorized = Described \/ quiet + reloadIn <= Period

\* The inductive invariant (IdentityProofs): the reload and the sweep keep
\* every identity's deadline, whatever the commands do to the directory, and
\* a directory that is left alone is followed.
Inv == DeadlineInv /\ ScanFollows /\ Reflected
=============================================================================
