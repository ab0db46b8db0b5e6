--------------------------- MODULE IdentityProofs ---------------------------
(***************************************************************************)
(* The identities that a server lets in, and the one that a client keeps in *)
(* the Secure Enclave.  RevokedInTime and Converges hold for every set of  *)
(* identities and names and every period: Inv is inductive, DeadlineInv by *)
(* itself and the rest on top of it.  No bound of a run enters: where MaxAge *)
(* cuts an age off, the bounds on it only become weaker.  The identity in the *)
(* Enclave is proved for any number of callers, keys, requests and helpers: a *)
(* caller gets the signature it asked for, no helper is left behind, and the *)
(* identity's key never changes.                                           *)
(***************************************************************************)
EXTENDS Revocation, SEIdentity, SequenceTheorems, TLAPS

\* The deadlines are products of a number of reloads with the period.
LEMMA Scale ==
    ASSUME NEW j \in Nat, NEW k \in Nat, j <= k
    PROVE  /\ j * Period \in Nat /\ k * Period \in Nat
           /\ j * Period <= k * Period
           /\ (j + 1) * Period = j * Period + Period
  <1>1. Period \in Nat BY PeriodAssumption
  <1>2. j * Period \in Nat /\ k * Period \in Nat BY <1>1
  <1>3. PICK d \in Nat : k = j + d
    <2>1. k - j \in Nat /\ k = j + (k - j) OBVIOUS
    <2> QED BY <2>1
  <1>4. k * Period = j * Period + d * Period /\ d * Period \in Nat BY <1>1, <1>3
  <1>5. (j + 1) * Period = j * Period + Period BY <1>1
  <1> QED BY <1>2, <1>4, <1>5

\* Initially every authorized identity has a descriptor (main.go, 299-307).
LEMMA InitInv == Init => DeadlineInv
  <1> SUFFICES ASSUME Init PROVE DeadlineInv OBVIOUS
  <1> USE NameAssumption, FileAssumption, PeriodAssumption
  <1>1. authorized \subseteq Identity
    <2>1. \A n \in Name : file[n] \in Identity \cup {NoFile} BY DEF Init
    <2>2. authorized = {file[n] : n \in Name} \ {NoFile} BY DEF Init
    <2> QED BY <2>1, <2>2
  <1>2. TypeOK
    <2>1. 0 \in 0..MaxAge /\ MaxAge \in 0..MaxAge /\ Period \in 0..Period OBVIOUS
    <2>2. sweepIn \in 0..Period BY DEF Init
    <2>3. gone \in [Identity -> 0..MaxAge] BY <2>1 DEF Init
    <2>4. scan \in [Proc -> Scan] /\ pc["admin"] = "idle" BY DEF Init, Scan, NoScan, Proc
    <2> QED BY <1>1, <2>1, <2>2, <2>3, <2>4 DEF Init, TypeOK
  <1>3. ServeScans BY DEF Init, ServeScans, Proc
  <1>4. ASSUME NEW i \in Identity PROVE Due(i)
    <2>1. scan["serve"].read = {} BY DEF Init, NoScan, Proc
    <2>2. Named(i) => i \in authorized BY DEF Init, Named
    <2>3. i \in authorized => gone[i] = 0 BY DEF Init
    <2>4. failures = 0 /\ reloadIn = Period /\ sessions = {} BY DEF Init
    <2>5. i \in authorized => failures < MaxFailures /\ gone[i] + reloadIn <= (failures + 1) * Period
      BY <2>3, <2>4
    <2> QED BY <2>1, <2>2, <2>3, <2>4, <2>5 DEF Due
  <1> QED BY <1>2, <1>3, <1>4 DEF DeadlineInv

\* What a command does to the directory keeps the types and lets no age grow,
\* and an identity that has a descriptor afterwards has age 0.
LEMMA ChangesSafe ==
    ASSUME TypeOK, NEW f \in [Name -> Identity \cup {NoFile, Partial}], Changes(f)
    PROVE  /\ file' \in [Name -> Identity \cup {NoFile, Partial}]
           /\ gone' \in [Identity -> 0..MaxAge] /\ quiet' \in 0..MaxAge
           /\ \A i \in Identity : gone'[i] <= gone[i] /\ (gone[i] = 0 => gone'[i] = 0)
           /\ \A i \in Identity : Named(i)' => gone'[i] = 0
  <1> USE PeriodAssumption
  <1>1. gone \in [Identity -> 0..MaxAge] /\ 0 \in 0..MaxAge BY DEF TypeOK
  <1>2. gone' = [i \in Identity |-> IF \E n \in Name : i \in {file[n], f[n]} THEN 0 ELSE gone[i]]
    BY DEF Changes
  <1>3. file' = f /\ quiet' = 0 BY DEF Changes
  <1>4. \A i \in Identity : Named(i)' => gone'[i] = 0 BY <1>2, <1>3 DEF Named
  <1>5. \A i \in Identity : gone'[i] \in {0, gone[i]} BY <1>2
  <1>6. \A i \in Identity : gone[i] \in 0..MaxAge BY <1>1
  <1>7. gone' \in [Identity -> 0..MaxAge] BY <1>1, <1>2
  <1>8. \A i \in Identity : gone'[i] <= gone[i] /\ (gone[i] = 0 => gone'[i] = 0)
    BY <1>5, <1>6
  <1> QED BY <1>1, <1>3, <1>4, <1>7, <1>8

\* A step that leaves the server and its scan alone, lets no age grow and
\* keeps the ages of described identities at 0, keeps every deadline.
LEMMA CommandKeeps ==
    ASSUME DeadlineInv, NEW i \in Identity,
           gone'[i] \in Nat, gone'[i] <= gone[i], Named(i)' => gone'[i] = 0,
           scan'["serve"] = scan["serve"], UNCHANGED serveVars
    PROVE  Due(i)'
  <1>1. gone[i] \in Nat /\ reloadIn \in Nat /\ sweepIn \in Nat
    BY PeriodAssumption DEF DeadlineInv, TypeOK
  <1>2. Due(i) BY DEF DeadlineInv
  <1>3. authorized' = authorized /\ sessions' = sessions /\ failures' = failures
        /\ reloadIn' = reloadIn /\ sweepIn' = sweepIn BY DEF serveVars
  <1>4. (failures + 1) * Period \in Int /\ (MaxFailures + 1) * Period \in Int
    BY PeriodAssumption DEF DeadlineInv, TypeOK
  <1>5. i \in authorized' =>
          failures' < MaxFailures /\ gone'[i] + reloadIn' <= (failures' + 1) * Period
    BY <1>1, <1>2, <1>3, <1>4 DEF Due
  <1>6. i \in sessions' \ authorized' => gone'[i] + sweepIn' <= (MaxFailures + 1) * Period
    BY <1>1, <1>2, <1>3, <1>4 DEF Due
  <1>7. i \in scan'["serve"].read => gone'[i] = 0 BY <1>1, <1>2 DEF Due
  <1> QED BY <1>5, <1>6, <1>7 DEF Due

\* A command's step keeps DeadlineInv: the peer directory and the command's own
\* state are all that it changes.
LEMMA AdminStep ==
    ASSUME DeadlineInv,
           \/ \E n \in Name, i \in Identity : Add(n, i)
           \/ ReadPeer("admin") \/ AddRefused \/ AddChecked
           \/ WriteNewCreate \/ WriteNewWrite \/ Killed
           \/ \E n \in Name : Remove(n) \/ Repair(n)
    PROVE  DeadlineInv'
  <1> DEFINE File == Identity \cup {NoFile, Partial}
             DirOK == /\ file' \in [Name -> File]
                      /\ gone' \in [Identity -> 0..MaxAge] /\ quiet' \in 0..MaxAge
                      /\ \A i \in Identity : gone'[i] <= gone[i]
                      /\ \A i \in Identity : Named(i)' => gone'[i] = 0
             RestOK == /\ backup' \subseteq Name
                       /\ pc' \in [Proc -> {"idle", "scan", "create", "write"}]
                       /\ job' \in [name : Name, id : Identity] \cup {NoJob}
                       /\ job' = NoJob <=> pc'["admin"] = "idle"
                       /\ scan' \in [Proc -> Scan]
                       /\ scan'["serve"] = scan["serve"] /\ pc'["serve"] = pc["serve"]
                       /\ UNCHANGED serveVars
  <1>1. SUFFICES DirOK /\ RestOK
    <2>1. DirOK /\ RestOK => DeadlineInv'
      <3> SUFFICES ASSUME DirOK, RestOK PROVE DeadlineInv' OBVIOUS
      <3>1. authorized' = authorized /\ sessions' = sessions /\ failures' = failures
            /\ reloadIn' = reloadIn /\ sweepIn' = sweepIn BY DEF serveVars
      <3>2. TypeOK' BY <3>1 DEF DeadlineInv, TypeOK
      <3>3. ServeScans' BY <3>1 DEF DeadlineInv, ServeScans
      <3>4. ASSUME NEW i \in Identity PROVE Due(i)'
        <4>1. gone'[i] \in 0..MaxAge OBVIOUS
        <4>2. gone'[i] \in Nat BY <4>1, PeriodAssumption
        <4> HIDE DEF File
        <4> QED BY <4>2, CommandKeeps
      <3> QED BY <3>2, <3>3, <3>4 DEF DeadlineInv
    <2> QED BY <2>1
  <1>2. /\ file \in [Name -> File] /\ gone \in [Identity -> 0..MaxAge] /\ quiet \in 0..MaxAge
        /\ backup \subseteq Name
        /\ pc \in [Proc -> {"idle", "scan", "create", "write"}]
        /\ job \in [name : Name, id : Identity] \cup {NoJob}
        /\ job = NoJob <=> pc["admin"] = "idle"
        /\ scan \in [Proc -> Scan]
    BY DEF DeadlineInv, TypeOK
  <1>3. \A i \in Identity : Named(i) => gone[i] = 0 BY DEF DeadlineInv, Due
  <1>4. UNCHANGED <<file, gone, quiet>> => DirOK
    <2>1. \A i \in Identity : gone[i] \in 0..MaxAge BY <1>2
    <2>2. ASSUME NEW i \in Identity PROVE gone[i] <= gone[i]
      <3>1. gone[i] \in Int BY <2>1, PeriodAssumption
      <3> QED BY <3>1
    <2> QED BY <1>2, <1>3, <2>2 DEF Named
  <1>5. ASSUME NEW f \in [Name -> File], Changes(f) PROVE DirOK
    BY <1>5, ChangesSafe DEF DeadlineInv
  <1>6. "admin" \in Proc /\ "serve" \in Proc /\ "admin" # "serve" BY DEF Proc
  <1>7. NoScan \in Scan BY DEF NoScan, Scan
  <1>8. ASSUME Returns("admin") PROVE
          /\ pc' \in [Proc -> {"idle", "scan", "create", "write"}]
          /\ job' = NoJob /\ pc'["admin"] = "idle"
          /\ scan' \in [Proc -> Scan]
          /\ scan'["serve"] = scan["serve"] /\ pc'["serve"] = pc["serve"]
    BY <1>2, <1>6, <1>7, <1>8 DEF Returns, Goto
  <1> HIDE DEF File, DirOK
  <1>10. CASE \E n \in Name, i \in Identity : Add(n, i)
    <2> PICK n \in Name, i \in Identity : Add(n, i) BY <1>10
    <2>1. [left |-> Present, read |-> {}] \in Scan BY DEF Scan, Present
    <2>2. job' = [name |-> n, id |-> i] BY DEF Add
    <2>3. job' \in [name : Name, id : Identity] /\ job' # NoJob BY <2>2, JobAssumption
    <2> QED BY <1>2, <1>4, <1>6, <2>1, <2>3 DEF Add, ReadDir, Goto, dirVars
  <1>11. CASE ReadPeer("admin")
    <2>1. scan["admin"] \in Scan BY <1>2, <1>6
    <2> PICK n \in First(scan["admin"].left) :
          /\ file[n] \in Identity
          /\ scan' = [scan EXCEPT !["admin"] =
                [left |-> scan["admin"].left \ {n}, read |-> scan["admin"].read \cup {file[n]}]]
      BY <1>11, Zenon DEF ReadPeer
    <2>3. [left |-> scan["admin"].left \ {n}, read |-> scan["admin"].read \cup {file[n]}] \in Scan
      BY <2>1 DEF Scan
    <2>5. scan' \in [Proc -> Scan] /\ scan'["serve"] = scan["serve"] BY <1>2, <1>6, <2>3
    <2> QED BY <1>2, <1>4, <1>11, <2>5 DEF ReadPeer, dirVars
  <1>12. CASE AddRefused
    BY <1>2, <1>4, <1>8, <1>12 DEF AddRefused, dirVars
  <1>13. CASE AddChecked
    BY <1>2, <1>4, <1>6, <1>13 DEF AddChecked, PeersRead, Goto, dirVars
  <1>14. CASE Killed
    BY <1>2, <1>4, <1>8, <1>14 DEF Killed, dirVars
  <1>15. CASE WriteNewCreate
    <2>1. [file EXCEPT ![job.name] = Partial] \in [Name -> File] BY <1>2, Zenon DEF File
    <2>2. CASE file[job.name] = NoFile
      <3>1. Changes([file EXCEPT ![job.name] = Partial]) /\ Goto("admin", "write")
            /\ UNCHANGED <<job, scan>> /\ UNCHANGED <<backup, serveVars>>
            /\ pc["admin"] # "idle"
        BY <1>15, <2>2 DEF WriteNewCreate
      <3>2. DirOK BY <1>5, <2>1, <3>1, Zenon
      <3> QED BY <1>2, <1>6, <3>1, <3>2 DEF Goto
    <2>3. CASE file[job.name] # NoFile
      BY <1>2, <1>4, <1>8, <1>15, <2>3 DEF WriteNewCreate
    <2> QED BY <2>2, <2>3
  <1>16. CASE WriteNewWrite
    <2> PICK g \in {job.id, NoFile} : Changes([file EXCEPT ![job.name] = g])
      BY <1>16, Zenon DEF WriteNewWrite
    <2>1. job.id \in Identity BY <1>2, <1>16 DEF WriteNewWrite
    <2>2. [file EXCEPT ![job.name] = g] \in [Name -> File] BY <1>2, <2>1, Zenon DEF File
    <2> QED BY <1>2, <1>5, <1>8, <1>16, <2>2, Zenon DEF WriteNewWrite
  <1>17. CASE \E n \in Name : Remove(n) \/ Repair(n)
    <2> PICK n \in Name : Remove(n) \/ Repair(n) BY <1>17
    <2>1. [file EXCEPT ![n] = NoFile] \in [Name -> File] BY <1>2 DEF File
    <2>2. CASE Remove(n)
      <3>1. DirOK BY <1>5, <2>1, <2>2, Zenon DEF Remove
      <3>2. backup' \subseteq Name BY <1>2, <2>2 DEF Remove
      <3> QED BY <1>2, <2>2, <3>1, <3>2 DEF Remove
    <2>3. CASE Repair(n)
      <3>1. DirOK BY <1>4, <1>5, <2>1, <2>3, Zenon DEF Repair
      <3>2. backup' \subseteq Name BY <1>2, <2>3 DEF Repair
      <3> QED BY <1>2, <2>3, <3>1, <3>2 DEF Repair
    <2> QED BY <2>2, <2>3
  <1> QED BY <1>10, <1>11, <1>12, <1>13, <1>14, <1>15, <1>16, <1>17

\* A step of the server, or a second that passes, keeps DeadlineInv.  The cases are
\* those of the reload: a reload that fails moves an authorized identity's
\* deadline by one period, until the last one revokes it; a reload that
\* succeeds authorizes what it read, and that was described a moment ago.
LEMMA ServeStep ==
    ASSUME DeadlineInv,
           \/ ReadPeer("serve") \/ ReloadTick \/ ReloadFailed \/ Reloaded
           \/ \E i \in Identity : Admit(i)
           \/ Sweep \/ Tick
    PROVE  DeadlineInv'
  <1>1. TypeOK /\ ServeScans /\ \A i \in Identity : Due(i) BY DEF DeadlineInv
  <1>2. /\ Period \in Nat /\ Period > 0 /\ MaxFailures \in Nat /\ MaxFailures > 0 /\ MaxAge \in Nat
        /\ reloadIn \in 0..Period /\ sweepIn \in 0..Period /\ failures \in Nat
        /\ Period \in 0..Period
    BY <1>1, PeriodAssumption DEF TypeOK
  <1>3. "serve" \in Proc /\ "admin" \in Proc /\ "admin" # "serve" BY DEF Proc
  <1>4. \A i \in Identity : gone[i] \in 0..MaxAge BY <1>1, Zenon DEF TypeOK
  <1>5. /\ pc \in [Proc -> {"idle", "scan", "create", "write"}] /\ scan \in [Proc -> Scan]
        /\ NoScan \in Scan /\ scan["serve"] \in Scan
    BY <1>1, <1>3, Zenon DEF TypeOK, Scan, NoScan
  <1>6. ASSUME NEW j \in Nat, j < MaxFailures PROVE
          /\ (j + 1) * Period \in Nat
          /\ (j + 1 + 1) * Period = (j + 1) * Period + Period
          /\ (j + 1) * Period + Period <= (MaxFailures + 1) * Period
          /\ (MaxFailures + 1) * Period \in Nat
    <2>1. j + 1 \in Nat /\ j + 1 <= MaxFailures /\ MaxFailures + 1 \in Nat BY <1>2, <1>6
    <2>2. /\ (j + 1) * Period \in Nat /\ MaxFailures * Period \in Nat
          /\ (j + 1) * Period <= MaxFailures * Period
          /\ (j + 1 + 1) * Period = (j + 1) * Period + Period
      BY <1>2, <2>1, Scale
    <2>3. (MaxFailures + 1) * Period = MaxFailures * Period + Period BY <1>2, Scale
    <2>4. (MaxFailures + 1) * Period \in Nat BY <1>2, <2>2, <2>3
    <2> DEFINE a == (j + 1) * Period  b == MaxFailures * Period
    <2>5. a \in Nat /\ b \in Nat /\ a <= b /\ (MaxFailures + 1) * Period = b + Period
      BY <2>2, <2>3
    <2> HIDE DEF a, b
    <2>6. a + Period <= (MaxFailures + 1) * Period BY <1>2, <2>5
    <2> QED BY <2>2, <2>4, <2>6 DEF a
  \* The deadline of an authorized identity, as it stands when a reload ends.
  <1>7. ASSUME NEW i \in Identity, i \in authorized, reloadIn = 0 PROVE
          /\ failures < MaxFailures /\ gone[i] <= (failures + 1) * Period
          /\ gone[i] + Period <= (failures + 1 + 1) * Period
          /\ gone[i] + sweepIn <= (MaxFailures + 1) * Period
    <2>1. failures < MaxFailures /\ gone[i] + 0 <= (failures + 1) * Period
      BY <1>1, <1>7 DEF Due
    <2>2. gone[i] \in Nat /\ sweepIn \in Nat /\ sweepIn <= Period BY <1>2, <1>4
    <2> DEFINE a == (failures + 1) * Period  b == (MaxFailures + 1) * Period
               c == (failures + 1 + 1) * Period
    <2>3. a \in Nat /\ b \in Nat /\ a + Period <= b /\ c = a + Period BY <1>2, <1>6, <2>1
    <2>4. gone[i] + 0 <= a BY <2>1
    <2> HIDE DEF a, b, c
    <2>5. gone[i] <= a /\ gone[i] + Period <= c /\ gone[i] + sweepIn <= b
      BY <1>2, <2>2, <2>3, <2>4
    <2> QED BY <2>1, <2>5 DEF a, b, c
  <1>8. ASSUME Returns("serve") PROVE
          /\ pc' \in [Proc -> {"idle", "scan", "create", "write"}] /\ scan' \in [Proc -> Scan]
          /\ pc'["serve"] = "idle" /\ scan'["serve"] = NoScan
          /\ pc'["admin"] = pc["admin"] /\ job' = job
    BY <1>3, <1>5, <1>8 DEF Returns, Goto
  <1>10. CASE ReadPeer("serve")
    <2> PICK n \in First(scan["serve"].left) :
          /\ file[n] \in Identity
          /\ scan' = [scan EXCEPT !["serve"] =
                [left |-> scan["serve"].left \ {n}, read |-> scan["serve"].read \cup {file[n]}]]
      BY <1>10, Zenon DEF ReadPeer
    <2>1. n \in Name BY <1>5 DEF First, Scan
    <2>2. [left |-> scan["serve"].left \ {n}, read |-> scan["serve"].read \cup {file[n]}] \in Scan
      BY <1>5 DEF Scan
    <2>3. /\ scan' \in [Proc -> Scan]
          /\ scan'["serve"].read = scan["serve"].read \cup {file[n]}
      BY <1>3, <1>5, <2>2
    <2>4. UNCHANGED <<dirVars, pc, job, serveVars>> /\ pc["serve"] = "scan"
      BY <1>10 DEF ReadPeer
    <2>5. TypeOK' BY <1>1, <2>3, <2>4 DEF TypeOK, dirVars, serveVars
    <2>6. ServeScans' BY <1>1, <2>4 DEF ServeScans, serveVars
    <2>7. ASSUME NEW i \in Identity PROVE Due(i)'
      <3>1. i = file[n] => Named(i) BY <2>1 DEF Named
      <3>2. i \in scan'["serve"].read => gone[i] = 0 BY <1>1, <2>3, <3>1 DEF Due
      <3> QED BY <1>1, <2>4, <3>2, Zenon DEF Due, Named, dirVars, serveVars
    <2> QED BY <2>5, <2>6, <2>7 DEF DeadlineInv
  <1>11. CASE ReloadTick
    <2>1. /\ reloadIn = 0 /\ pc' = [pc EXCEPT !["serve"] = "scan"]
          /\ scan' = [scan EXCEPT !["serve"] = [left |-> Present, read |-> {}]]
          /\ UNCHANGED <<dirVars, job, serveVars>>
      BY <1>11 DEF ReloadTick, ReadDir, Goto
    <2>2. [left |-> Present, read |-> {}] \in Scan BY DEF Scan, Present
    <2>3. /\ pc' \in [Proc -> {"idle", "scan", "create", "write"}] /\ scan' \in [Proc -> Scan]
          /\ pc'["serve"] = "scan" /\ scan'["serve"].read = {} /\ pc'["admin"] = pc["admin"]
      BY <1>3, <1>5, <2>1, <2>2, Zenon
    <2>4. TypeOK' BY <1>1, <2>1, <2>3 DEF TypeOK, dirVars, serveVars
    <2>5. ServeScans' BY <2>1, <2>3 DEF ServeScans, serveVars
    <2>6. \A i \in Identity : Due(i)' BY <1>1, <2>1, <2>3, Zenon DEF Due, Named, dirVars, serveVars
    <2> QED BY <2>4, <2>5, <2>6 DEF DeadlineInv
  <1>12. CASE ReloadFailed
    <2>1. /\ failures' = IF failures < MaxFailures THEN failures + 1 ELSE failures
          /\ authorized' = IF failures + 1 < MaxFailures THEN authorized ELSE {}
          /\ reloadIn' = Period /\ Returns("serve") /\ UNCHANGED <<dirVars, sessions, sweepIn>>
          /\ pc["serve"] = "scan"
      BY <1>12 DEF ReloadFailed, PeersFailed
    <2>2. reloadIn = 0 BY <1>1, <2>1 DEF ServeScans
    <2>3. TypeOK'
      <3>1. failures' \in Nat /\ authorized' \subseteq Identity
        <4>1. failures + 1 \in Nat BY <1>2
        <4> QED BY <1>1, <1>2, <2>1, <4>1 DEF TypeOK
      <3> QED BY <1>1, <1>2, <1>8, <2>1, <3>1 DEF TypeOK, dirVars
    <2>4. ServeScans' BY <1>8, <2>1 DEF ServeScans
    <2>5. ASSUME NEW i \in Identity PROVE Due(i)'
      <3>1. gone' = gone /\ file' = file BY <2>1 DEF dirVars
      <3>2. i \in authorized' =>
              failures' < MaxFailures /\ gone'[i] + reloadIn' <= (failures' + 1) * Period
        <4> SUFFICES ASSUME i \in authorized' PROVE
              failures' < MaxFailures /\ gone[i] + Period <= (failures' + 1) * Period
          BY <2>1, <3>1
        <4>1. i \in authorized /\ failures + 1 < MaxFailures BY <2>1
        <4>2. failures' = failures + 1 BY <1>2, <2>1, <4>1
        <4> QED BY <1>7, <2>2, <4>1, <4>2
      <3>3. i \in sessions' \ authorized' => gone'[i] + sweepIn' <= (MaxFailures + 1) * Period
        <4>1. i \in authorized => gone[i] + sweepIn <= (MaxFailures + 1) * Period BY <1>7, <2>2
        <4>2. i \in sessions \ authorized => gone[i] + sweepIn <= (MaxFailures + 1) * Period
          BY <1>1 DEF Due
        <4> QED BY <2>1, <3>1, <4>1, <4>2
      <3>4. scan'["serve"].read = {} BY <1>8, <2>1 DEF NoScan
      <3> QED BY <1>1, <3>1, <3>2, <3>3, <3>4 DEF Due, Named
    <2> QED BY <2>3, <2>4, <2>5 DEF DeadlineInv
  <1>13. CASE Reloaded
    <2>1. /\ failures' = 0 /\ authorized' = scan["serve"].read
          /\ reloadIn' = Period /\ Returns("serve") /\ UNCHANGED <<dirVars, sessions, sweepIn>>
          /\ pc["serve"] = "scan"
      BY <1>13 DEF Reloaded, PeersRead
    <2>2. reloadIn = 0 BY <1>1, <2>1 DEF ServeScans
    <2>3. TypeOK'
      <3>1. failures' \in Nat /\ authorized' \subseteq Identity BY <1>5, <2>1 DEF Scan
      <3> QED BY <1>1, <1>2, <1>8, <2>1, <3>1 DEF TypeOK, dirVars
    <2>4. ServeScans' BY <1>8, <2>1 DEF ServeScans
    <2>5. ASSUME NEW i \in Identity PROVE Due(i)'
      <3>1. gone' = gone /\ file' = file BY <2>1 DEF dirVars
      <3>2. i \in authorized' =>
              failures' < MaxFailures /\ gone'[i] + reloadIn' <= (failures' + 1) * Period
        <4>1. i \in authorized' => gone'[i] = 0 BY <1>1, <2>1, <3>1 DEF Due
        <4>2. (failures' + 1) * Period = Period BY <1>2, <2>1
        <4> QED BY <1>2, <2>1, <4>1, <4>2
      <3>3. i \in sessions' \ authorized' => gone'[i] + sweepIn' <= (MaxFailures + 1) * Period
        <4>1. i \in authorized => gone[i] + sweepIn <= (MaxFailures + 1) * Period BY <1>7, <2>2
        <4>2. i \in sessions \ authorized => gone[i] + sweepIn <= (MaxFailures + 1) * Period
          BY <1>1 DEF Due
        <4> QED BY <2>1, <3>1, <4>1, <4>2
      <3>4. scan'["serve"].read = {} BY <1>8, <2>1 DEF NoScan
      <3> QED BY <1>1, <3>1, <3>2, <3>3, <3>4 DEF Due, Named
    <2> QED BY <2>3, <2>4, <2>5 DEF DeadlineInv
  <1>14. CASE \E i \in Identity : Admit(i)
    <2> PICK j \in Identity : Admit(j) BY <1>14
    <2>1. /\ j \in authorized /\ sessions' = sessions \cup {j}
          /\ UNCHANGED <<dirVars, pc, job, scan, authorized, failures, reloadIn, sweepIn>>
      BY DEF Admit
    <2>2. TypeOK' BY <1>1, <2>1 DEF TypeOK, dirVars
    <2>3. ServeScans' BY <1>1, <2>1 DEF ServeScans
    <2>4. \A i \in Identity : Due(i)' BY <1>1, <2>1, Zenon DEF Due, Named, dirVars
    <2> QED BY <2>2, <2>3, <2>4 DEF DeadlineInv
  <1>15. CASE Sweep
    <2>1. /\ sessions' = sessions \cap authorized /\ sweepIn' = Period
          /\ UNCHANGED <<dirVars, pc, job, scan, authorized, failures, reloadIn>>
      BY <1>15 DEF Sweep
    <2>2. TypeOK' BY <1>1, <1>2, <2>1 DEF TypeOK, dirVars
    <2>3. ServeScans' BY <1>1, <2>1 DEF ServeScans
    <2>4. \A i \in Identity : Due(i)' BY <1>1, <2>1, Zenon DEF Due, Named, dirVars
    <2> QED BY <2>2, <2>3, <2>4 DEF DeadlineInv
  <1>16. CASE Tick
    <2>1. /\ reloadIn > 0 /\ sweepIn > 0 /\ pc["serve"] = "idle"
          /\ reloadIn' = reloadIn - 1 /\ sweepIn' = sweepIn - 1
          /\ gone' = [i \in Identity |-> IF Named(i) THEN 0 ELSE older(gone[i])]
          /\ quiet' = older(quiet)
          /\ UNCHANGED <<file, backup, pc, job, scan, authorized, failures, sessions>>
      BY <1>16 DEF Tick
    <2>2. reloadIn' \in 0..Period /\ sweepIn' \in 0..Period
      BY <1>2, <2>1
    <2>3. ASSUME NEW a \in 0..MaxAge PROVE older(a) \in 0..MaxAge /\ older(a) <= a + 1
      BY <1>2 DEF older
    <2>4. gone' \in [Identity -> 0..MaxAge] /\ quiet' \in 0..MaxAge
      <3>1. 0 \in 0..MaxAge /\ quiet \in 0..MaxAge BY <1>1, <1>2 DEF TypeOK
      <3> QED BY <1>4, <2>1, <2>3, <3>1
    <2>5. TypeOK' BY <1>1, <2>1, <2>2, <2>4 DEF TypeOK
    <2>6. ServeScans' BY <1>1, <2>1 DEF ServeScans
    <2>7. ASSUME NEW i \in Identity PROVE Due(i)'
      <3>1. gone[i] \in Nat /\ gone'[i] \in Nat /\ reloadIn \in Nat /\ sweepIn \in Nat
        BY <1>2, <1>4, <2>4
      <3>2. gone'[i] <= gone[i] + 1
        <4>1. gone'[i] = 0 \/ gone'[i] = older(gone[i]) BY <2>1
        <4>2. older(gone[i]) <= gone[i] + 1 BY <1>4, <2>3
        <4> QED BY <3>1, <4>1, <4>2
      <3>3. gone'[i] + reloadIn' <= gone[i] + reloadIn /\ gone'[i] + sweepIn' <= gone[i] + sweepIn
        BY <2>1, <3>1, <3>2
      <3>4. /\ gone'[i] + reloadIn' \in Int /\ gone[i] + reloadIn \in Int
            /\ gone'[i] + sweepIn' \in Int /\ gone[i] + sweepIn \in Int
            /\ (failures + 1) * Period \in Int /\ (MaxFailures + 1) * Period \in Int
        BY <1>2, <2>1, <3>1
      <3>5. Due(i) BY <1>1
      <3>6. i \in authorized' =>
              failures' < MaxFailures /\ gone'[i] + reloadIn' <= (failures' + 1) * Period
        BY <2>1, <3>3, <3>4, <3>5 DEF Due
      <3>7. i \in sessions' \ authorized' => gone'[i] + sweepIn' <= (MaxFailures + 1) * Period
        BY <2>1, <3>3, <3>4, <3>5 DEF Due
      <3>8. scan'["serve"].read = {} BY <1>1, <2>1 DEF ServeScans, NoScan
      <3>9. Named(i)' => gone'[i] = 0 BY <2>1 DEF Named
      <3> QED BY <3>6, <3>7, <3>8, <3>9 DEF Due
    <2> QED BY <2>5, <2>6, <2>7 DEF DeadlineInv
  <1> QED BY <1>10, <1>11, <1>12, <1>13, <1>14, <1>15, <1>16

-----------------------------------------------------------------------------
(***************************************************************************)
(* A directory that is left alone is followed.                             *)
(***************************************************************************)

LEMMA AtMost ==
    ASSUME NEW a \in Nat, NEW b \in Nat, NEW c \in Nat, NEW d \in Nat, NEW e \in Nat,
           a + b <= c + d, c + d <= e
    PROVE  a + b <= e
  OBVIOUS

LEMMA NoneYet ==
    ASSUME NEW a \in Nat, NEW b \in Nat, NEW c \in Nat, a <= b, b <= c
    PROVE  0 + a <= b /\ 0 + a <= c
  OBVIOUS

\* The numbers in Reflected.
Numbers ==
    /\ quiet \in Nat /\ reloadIn \in Nat /\ reloadIn <= Period
    /\ failures \in Nat /\ Period \in Nat
    /\ Period <= (failures + 1) * Period /\ (failures + 1) * Period \in Nat

LEMMA NumbersHold == DeadlineInv => Numbers
  <1> SUFFICES ASSUME DeadlineInv PROVE Numbers OBVIOUS
  <1>1. /\ quiet \in 0..MaxAge /\ reloadIn \in 0..Period /\ failures \in Nat
        /\ Period \in Nat /\ MaxAge \in Nat
    BY PeriodAssumption DEF DeadlineInv, TypeOK
  <1>2. 1 \in Nat /\ failures + 1 \in Nat /\ 1 <= failures + 1 BY <1>1
  <1>3. 1 * Period <= (failures + 1) * Period /\ (failures + 1) * Period \in Nat BY <1>2, Scale
  <1> DEFINE a == (failures + 1) * Period
  <1>4. a \in Nat /\ Period <= a BY <1>1, <1>3
  <1> HIDE DEF a
  <1>5. quiet \in Nat /\ reloadIn \in Nat /\ reloadIn <= Period BY <1>1
  <1> QED BY <1>1, <1>4, <1>5 DEF a, Numbers

LEMMA NumbersNext == DeadlineInv' => Numbers'
  BY NumbersHold, PTL

\* A change of the directory begins a period of grace.
LEMMA Grace ==
    ASSUME DeadlineInv', quiet' = 0
    PROVE  ScanFollows' /\ Reflected'
  <1>1. reloadIn' \in Nat /\ reloadIn' <= Period /\ Period \in Nat
        /\ Period <= (failures' + 1) * Period /\ (failures' + 1) * Period \in Nat
    BY NumbersNext DEF Numbers
  <1> DEFINE a == (failures' + 1) * Period
  <1>2. a \in Nat /\ Period <= a /\ Period \in Nat BY <1>1
  <1> HIDE DEF a
  <1>3. 0 + reloadIn' <= Period /\ 0 + reloadIn' <= a BY <1>1, <1>2, NoneYet, Zenon
  <1>4. quiet' + reloadIn' <= Period /\ quiet' + reloadIn' <= a BY <1>3, Zenon
  <1>5. Reflected' BY <1>4 DEF Reflected, a
  <1>6. ~(quiet' > 0) OBVIOUS
  <1>7. ScanFollows' BY <1>6 DEF ScanFollows
  <1> QED BY <1>5, <1>7

\* What has the same directory, the same reload and the same authorizations
\* is reflected to the same degree.
LEMMA SameFollows ==
    ASSUME ScanFollows, Reflected, pc'["serve"] = pc["serve"], scan'["serve"] = scan["serve"],
           UNCHANGED <<file, quiet, authorized, failures, reloadIn>>
    PROVE  ScanFollows' /\ Reflected'
  BY DEF ScanFollows, Reflected, Unreadable, Described, Present

\* The commands change the directory, and with it begin the grace, or neither
\* it nor the server.
LEMMA AdminFollows ==
    ASSUME Inv, DeadlineInv',
           \/ \E n \in Name, i \in Identity : Add(n, i)
           \/ ReadPeer("admin") \/ AddRefused \/ AddChecked
           \/ WriteNewCreate \/ WriteNewWrite \/ Killed
           \/ \E n \in Name : Remove(n) \/ Repair(n)
    PROVE  ScanFollows' /\ Reflected'
  <1> USE DEF Inv
  <1>1. ASSUME quiet' = 0 PROVE ScanFollows' /\ Reflected' BY <1>1, Grace
  <1>2. "admin" \in Proc /\ "serve" \in Proc /\ "admin" # "serve" BY DEF Proc
  <1>3. pc \in [Proc -> {"idle", "scan", "create", "write"}] /\ scan \in [Proc -> Scan]
    BY DEF DeadlineInv, TypeOK
  <1>4. ASSUME Returns("admin") \/ (Goto("admin", "create") /\ UNCHANGED scan)
        PROVE  pc'["serve"] = pc["serve"] /\ scan'["serve"] = scan["serve"]
    BY <1>2, <1>3, <1>4 DEF Returns, Goto
  <1>10. CASE \E n \in Name, i \in Identity : Add(n, i)
    <2>1. /\ pc' = [pc EXCEPT !["admin"] = "scan"]
          /\ scan' = [scan EXCEPT !["admin"] = [left |-> Present, read |-> {}]]
          /\ UNCHANGED <<dirVars, serveVars>>
      BY <1>10 DEF Add, ReadDir, Goto
    <2>2. pc'["serve"] = pc["serve"] /\ scan'["serve"] = scan["serve"] BY <1>2, <1>3, <2>1
    <2> QED BY <2>1, <2>2, SameFollows DEF dirVars, serveVars
  <1>11. CASE ReadPeer("admin")
    <2>1. /\ scan'["serve"] = scan["serve"] /\ UNCHANGED <<dirVars, pc, job, serveVars>>
      BY <1>2, <1>3, <1>11 DEF ReadPeer
    <2> QED BY <2>1, SameFollows, Zenon DEF dirVars, serveVars
  <1>12. CASE AddRefused \/ AddChecked \/ Killed
    <2>1. UNCHANGED <<dirVars, serveVars>> BY <1>12 DEF AddRefused, AddChecked, Killed
    <2>2. Returns("admin") \/ (Goto("admin", "create") /\ UNCHANGED scan)
      BY <1>12 DEF AddRefused, AddChecked, Killed
    <2> QED BY <1>4, <2>1, <2>2, SameFollows, Zenon DEF dirVars, serveVars
  <1>13. CASE WriteNewCreate
    <2>1. CASE file[job.name] = NoFile
      BY <1>1, <1>13, <2>1 DEF WriteNewCreate, Changes
    <2>2. CASE file[job.name] # NoFile
      <3>1. Returns("admin") /\ UNCHANGED <<file, gone, quiet>> /\ UNCHANGED <<backup, serveVars>>
        BY <1>13, <2>2 DEF WriteNewCreate
      <3> QED BY <1>4, <3>1, SameFollows, Zenon DEF serveVars
    <2> QED BY <2>1, <2>2
  <1>14. CASE WriteNewWrite
    BY <1>1, <1>14 DEF WriteNewWrite, Changes
  <1>15. CASE \E n \in Name : Remove(n) \/ Repair(n)
    <2>1. PICK n \in Name : Remove(n) \/ Repair(n) BY <1>15
    <2>2. quiet' = 0 \/ UNCHANGED <<file, gone, quiet>> BY <2>1 DEF Remove, Repair, Changes
    <2>3. UNCHANGED <<pc, job, scan, serveVars>> BY <2>1 DEF Remove, Repair
    <2> QED BY <1>1, <2>2, <2>3, SameFollows DEF serveVars
  <1> QED BY <1>10, <1>11, <1>12, <1>13, <1>14, <1>15

\* The server reads what is there, and nothing moves while it reads: a reload
\* that succeeds reflects the directory, and one that fails has met a file
\* that is still being written, or a change.
LEMMA ServeFollows ==
    ASSUME Inv, DeadlineInv',
           \/ ReadPeer("serve") \/ ReloadTick \/ ReloadFailed \/ Reloaded
           \/ \E i \in Identity : Admit(i)
           \/ Sweep \/ Tick
    PROVE  ScanFollows' /\ Reflected'
  <1>1. DeadlineInv /\ ScanFollows /\ Reflected BY DEF Inv
  <1>2. "serve" \in Proc BY DEF Proc
  <1>3. /\ pc \in [Proc -> {"idle", "scan", "create", "write"}] /\ scan \in [Proc -> Scan]
        /\ scan["serve"] \in Scan /\ file \in [Name -> Identity \cup {NoFile, Partial}]
    BY <1>1, <1>2 DEF DeadlineInv, TypeOK
  <1>4. Numbers BY <1>1, NumbersHold
  <1>5. Numbers' BY NumbersNext
  <1>6. Present \subseteq Name /\ scan["serve"].left \subseteq Name BY <1>3 DEF Present, Scan
  <1>7. \A n \in Name : file[n] \in Identity => file[n] \in Described /\ n \in Present
    BY FileAssumption, Zenon DEF Described, Present
  <1>8. \A n \in Present : file[n] \in Identity \/ file[n] = Partial BY <1>3, <1>6 DEF Present
  <1>10. CASE ReadPeer("serve")
    <2>1. PICK n \in First(scan["serve"].left) :
          /\ file[n] \in Identity
          /\ scan' = [scan EXCEPT !["serve"] =
                [left |-> scan["serve"].left \ {n}, read |-> scan["serve"].read \cup {file[n]}]]
      BY <1>10, Zenon DEF ReadPeer
    <2>2. n \in Name BY <1>6 DEF First
    <2>3. /\ scan'["serve"].left = scan["serve"].left \ {n}
          /\ scan'["serve"].read = scan["serve"].read \cup {file[n]}
      BY <1>2, <1>3, <2>1
    <2>4. UNCHANGED <<dirVars, pc, job, serveVars>> BY <1>10 DEF ReadPeer
    <2>5. UNCHANGED <<file, quiet, authorized, failures, reloadIn, pc>> BY <2>4 DEF dirVars, serveVars
    <2>6. Reflected' BY <1>1, <2>5 DEF Reflected, Unreadable, Described
    <2>7. Described' = Described /\ Present' = Present BY <2>5, Zenon DEF Described, Present
    <2>8. ScanFollows'
      <3> SUFFICES ASSUME pc["serve"] = "scan", quiet > 0
                   PROVE  /\ scan'["serve"].left \subseteq Present
                          /\ \A m \in Present \ scan'["serve"].left : file[m] \in scan'["serve"].read
                          /\ scan'["serve"].read \subseteq Described
        BY <2>5, <2>7, Zenon DEF ScanFollows
      <3>1. /\ scan["serve"].left \subseteq Present
            /\ \A m \in Present \ scan["serve"].left : file[m] \in scan["serve"].read
            /\ scan["serve"].read \subseteq Described
        BY <1>1 DEF ScanFollows
      <3> QED BY <1>7, <2>1, <2>2, <2>3, <3>1
    <2> QED BY <2>6, <2>8
  <1>11. CASE ReloadTick
    <2>1. /\ scan' = [scan EXCEPT !["serve"] = [left |-> Present, read |-> {}]]
          /\ UNCHANGED <<dirVars, job, serveVars>>
      BY <1>11 DEF ReloadTick, ReadDir
    <2>2. scan'["serve"].left = Present /\ scan'["serve"].read = {} BY <1>2, <1>3, <2>1
    <2>3. UNCHANGED <<file, quiet, authorized, failures, reloadIn>> BY <2>1 DEF dirVars, serveVars
    <2>4. Reflected' BY <1>1, <2>3 DEF Reflected, Unreadable, Described
    <2>5. Present' = Present BY <2>3 DEF Present
    <2>6. ScanFollows' BY <2>2, <2>5 DEF ScanFollows
    <2> QED BY <2>4, <2>6
  <1>12. CASE ReloadFailed \/ Reloaded
    <2>1. /\ pc["serve"] = "scan" /\ reloadIn' = Period /\ Returns("serve")
          /\ UNCHANGED <<file, quiet>>
      BY <1>12 DEF ReloadFailed, Reloaded, PeersFailed, PeersRead, dirVars
    <2>2. pc'["serve"] = "idle" BY <1>2, <1>3, <2>1 DEF Returns, Goto
    <2>3. ScanFollows' BY <2>2 DEF ScanFollows
    <2>4. reloadIn = 0 BY <1>1, <2>1 DEF DeadlineInv, ServeScans
    <2>5. CASE quiet = 0
      BY <2>1, <2>5, Grace
    <2>6. CASE quiet # 0
      <3>1. quiet > 0 BY <1>4, <2>6 DEF Numbers
      <3>2. /\ scan["serve"].left \subseteq Present
            /\ \A n \in Present \ scan["serve"].left : file[n] \in scan["serve"].read
            /\ scan["serve"].read \subseteq Described
        BY <1>1, <2>1, <3>1 DEF ScanFollows
      <3>3. Unreadable' = Unreadable /\ Described' = Described BY <2>1 DEF Unreadable, Described
      <3>4. CASE ReloadFailed
        <4>1. PICK n \in First(scan["serve"].left) : file[n] \notin Identity
          BY <3>4 DEF ReloadFailed, PeersFailed
        <4>2. n \in Name /\ file[n] = Partial BY <1>6, <1>8, <3>2, <4>1 DEF First
        <4>3. Unreadable BY <4>2 DEF Unreadable
        <4>4. CASE failures + 1 < MaxFailures
          <5>1. authorized' = authorized /\ failures' = failures + 1
            BY <1>4, <3>4, <4>4, PeriodAssumption DEF ReloadFailed, Numbers
          <5>2. authorized = {} \/ quiet <= (failures + 1) * Period
            BY <1>1, <1>4, <2>4, <4>3 DEF Reflected, Numbers
          <5> DEFINE a == (failures + 1) * Period  b == (failures' + 1) * Period
          <5>3. a \in Nat /\ b = a + Period
            <6>1. failures + 1 \in Nat /\ failures + 1 <= failures + 1 BY <1>4 DEF Numbers
            <6>2. (failures + 1) * Period \in Nat
                  /\ (failures + 1 + 1) * Period = (failures + 1) * Period + Period
              BY <6>1, Scale
            <6> QED BY <5>1, <6>2
          <5>4. authorized = {} \/ quiet <= a BY <5>2
          <5>5. quiet \in Nat /\ Period \in Nat BY <1>4 DEF Numbers
          <5> HIDE DEF a, b
          <5>6. authorized = {} \/ quiet + Period <= b BY <5>3, <5>4, <5>5
          <5> QED BY <2>1, <2>3, <3>3, <4>3, <5>1, <5>6 DEF Reflected, b
        <4>5. CASE ~(failures + 1 < MaxFailures)
          <5>1. authorized' = {} BY <3>4, <4>5 DEF ReloadFailed
          <5> QED BY <2>3, <3>3, <4>3, <5>1 DEF Reflected
        <4> QED BY <4>4, <4>5
      <3>5. CASE Reloaded
        <4>1. scan["serve"].left = {} /\ authorized' = scan["serve"].read
          BY <3>5 DEF Reloaded, PeersRead
        <4>2. scan["serve"].read \subseteq Identity BY <1>3 DEF Scan
        <4>3. \A n \in Present : file[n] \in Identity BY <3>2, <4>1, <4>2
        <4>4. ~Unreadable BY <4>3, FileAssumption DEF Unreadable, Present
        <4>5. Described \subseteq scan["serve"].read BY <3>2, <4>1 DEF Described, Present
        <4>6. authorized' = Described BY <3>2, <4>1, <4>5, Zenon
        <4> QED BY <2>3, <3>3, <4>4, <4>6 DEF Reflected
      <3> QED BY <1>12, <3>4, <3>5
    <2> QED BY <2>5, <2>6
  <1>13. CASE \E i \in Identity : Admit(i)
    BY <1>1, <1>13, SameFollows DEF Admit, dirVars
  <1>14. CASE Sweep
    BY <1>1, <1>14, SameFollows DEF Sweep, dirVars
  <1>15. CASE Tick
    <2>1. /\ pc["serve"] = "idle" /\ reloadIn > 0 /\ reloadIn' = reloadIn - 1
          /\ quiet' = older(quiet) /\ UNCHANGED <<file, pc, authorized, failures>>
      BY <1>15 DEF Tick
    <2>2. ScanFollows' BY <2>1 DEF ScanFollows
    <2>3. quiet' + reloadIn' <= quiet + reloadIn BY <1>4, <1>5, <2>1, PeriodAssumption DEF older, Numbers
    <2>4. Unreadable' = Unreadable /\ Described' = Described BY <2>1 DEF Unreadable, Described
    <2> DEFINE a == (failures + 1) * Period
    <2>5. a \in Nat /\ (failures' + 1) * Period = a BY <1>4, <2>1 DEF Numbers
    <2>6. IF Unreadable THEN authorized = {} \/ quiet + reloadIn <= a
          ELSE authorized = Described \/ quiet + reloadIn <= Period
      BY <1>1 DEF Reflected
    <2> HIDE DEF a
    <2>7. quiet' \in Nat /\ reloadIn' \in Nat /\ quiet \in Nat /\ reloadIn \in Nat /\ Period \in Nat
      BY <1>4, <1>5 DEF Numbers
    <2>8. \A b \in Nat : quiet + reloadIn <= b => quiet' + reloadIn' <= b
      BY <2>3, <2>7, AtMost, Zenon
    <2>10. IF Unreadable THEN authorized = {} \/ quiet' + reloadIn' <= a
           ELSE authorized = Described \/ quiet' + reloadIn' <= Period
      BY <2>5, <2>6, <2>7, <2>8, Zenon
    <2>9. Reflected' BY <2>1, <2>4, <2>5, <2>10 DEF Reflected
    <2> QED BY <2>2, <2>9
  <1> QED BY <1>10, <1>11, <1>12, <1>13, <1>14, <1>15

\* The server starts with the authorizations of its directory.
LEMMA InitFollows == Init => ScanFollows /\ Reflected
  <1> SUFFICES ASSUME Init PROVE ScanFollows /\ Reflected OBVIOUS
  <1>1. ScanFollows BY DEF Init, ScanFollows, Proc
  <1>2. \A n \in Name : file[n] \in Identity \cup {NoFile} BY DEF Init
  <1>3. ~Unreadable BY <1>2, FileAssumption DEF Unreadable
  <1>4. authorized = Described BY <1>2, FileAssumption DEF Init, Described
  <1> QED BY <1>1, <1>3, <1>4 DEF Reflected

\* The inductive invariant: no command, no failed reload and no order of the
\* two tickers moves an identity past its deadline, or the authorizations away
\* from a directory that is left alone.
THEOREM Deadlines == Spec => []Inv
  <1>1. Inv /\ UNCHANGED vars => Inv'
    <2> SUFFICES ASSUME Inv, UNCHANGED vars PROVE Inv' OBVIOUS
    <2>1. DeadlineInv'
      BY Zenon DEF Inv, DeadlineInv, TypeOK, ServeScans, Due, Named, vars, dirVars, serveVars
    <2>2. ScanFollows' /\ Reflected'
      BY SameFollows DEF Inv, vars, dirVars, serveVars
    <2> QED BY <2>1, <2>2 DEF Inv
  <1>2. Inv /\ Next => Inv'
    <2> SUFFICES ASSUME Inv, Next PROVE Inv' OBVIOUS
    <2>1. \A p \in Proc : p = "admin" \/ p = "serve" BY DEF Proc
    <2>2. DeadlineInv' BY <2>1, AdminStep, ServeStep DEF Next, Inv
    <2>3. ScanFollows' /\ Reflected' BY <2>1, <2>2, AdminFollows, ServeFollows DEF Next
    <2> QED BY <2>2, <2>3 DEF Inv
  <1>3. Init => Inv BY InitInv, InitFollows DEF Inv
  <1> QED BY <1>1, <1>2, <1>3, PTL DEF Spec

\* A session outlives the descriptor of its identity by at most
\* MaxFailures + 1 periods (authorization.go, 39-42).
THEOREM RevocationInTime == Spec => []RevokedInTime
  <1>1. Inv => RevokedInTime
    <2> SUFFICES ASSUME Inv, NEW i \in sessions PROVE gone[i] <= (MaxFailures + 1) * Period
      BY DEF RevokedInTime
    <2>1. i \in Identity /\ failures \in Nat /\ MaxFailures \in Nat
          /\ gone[i] \in Nat /\ reloadIn \in Nat /\ sweepIn \in Nat
      BY PeriodAssumption DEF Inv, DeadlineInv, TypeOK
    <2>2. Due(i) BY <2>1 DEF Inv, DeadlineInv
    <2> DEFINE b == (MaxFailures + 1) * Period
    <2>3. b \in Nat BY <2>1, PeriodAssumption
    <2>4. CASE i \in authorized
      <3> DEFINE a == (failures + 1) * Period
      <3>1. gone[i] + reloadIn <= a /\ failures + 1 \in Nat /\ failures + 1 <= MaxFailures + 1
        BY <2>1, <2>2, <2>4 DEF Due
      <3>2. a \in Nat /\ a <= b BY <2>1, <3>1, Scale
      <3> HIDE DEF a, b
      <3> QED BY <2>1, <2>3, <3>1, <3>2 DEF b
    <2>5. CASE i \notin authorized
      <3>1. gone[i] + sweepIn <= b BY <2>2, <2>5 DEF Due
      <3> HIDE DEF b
      <3> QED BY <2>1, <2>3, <3>1 DEF b
    <2> QED BY <2>4, <2>5
  <1> QED BY <1>1, Deadlines, PTL

\* The authorizations are those of a directory that nobody has changed for a
\* period, and a directory that cannot be read has revoked everyone within
\* MaxFailures periods, for any set of names and of identities and whatever
\* failed or was interrupted before (authorization.go, 33-50).
THEOREM Followed == Spec => []Converges
  <1>1. Inv => Converges
    <2> SUFFICES ASSUME Inv PROVE Converges OBVIOUS
    <2>1. DeadlineInv /\ Reflected BY DEF Inv
    <2>2. Numbers BY <2>1, NumbersHold
    <2>3. CASE ~Unreadable
      <3>1. authorized = Described \/ quiet + reloadIn <= Period BY <2>1, <2>3 DEF Reflected
      <3>2. quiet > Period => authorized = Described BY <2>2, <3>1 DEF Numbers
      <3> QED BY <2>3, <3>2 DEF Converges
    <2>4. CASE Unreadable
      <3> SUFFICES ASSUME authorized # {}, quiet > MaxFailures * Period PROVE FALSE
        BY <2>4 DEF Converges
      <3>1. PICK i \in authorized : TRUE OBVIOUS
      <3>2. i \in Identity BY <2>1 DEF DeadlineInv, TypeOK
      <3>3. failures < MaxFailures BY <2>1, <3>1, <3>2 DEF DeadlineInv, Due
      <3>4. quiet + reloadIn <= (failures + 1) * Period BY <2>1, <2>4 DEF Reflected
      <3>5. failures + 1 \in Nat /\ MaxFailures \in Nat /\ failures + 1 <= MaxFailures
        BY <2>2, <3>3, PeriodAssumption DEF Numbers
      <3> DEFINE a == (failures + 1) * Period  b == MaxFailures * Period
      <3>6. a \in Nat /\ b \in Nat /\ a <= b BY <3>5, Scale
      <3>7. quiet + reloadIn <= a /\ quiet > b BY <3>4
      <3> HIDE DEF a, b
      <3> QED BY <2>2, <3>6, <3>7 DEF Numbers
    <2> QED BY <2>3, <2>4
  <1> QED BY <1>1, Deadlines, PTL

-----------------------------------------------------------------------------
(***************************************************************************)
(* The identity in the Secure Enclave.                                     *)
(***************************************************************************)
Outside == {"idle", "lock", "lockClose"}

\* Only the holder of the mutex is past Lock.
LEMMA Holder ==
    ASSUME SETypeOK, NEW c \in Caller, call[c] \notin Outside, NEW d \in Caller, d # c
    PROVE  call[d] \in Outside /\ call[d] \notin Waits /\ ~Loading(d)
  BY DEF SETypeOK, Outside, Waits, Loading

\* The helper that a caller uses has been started.
LEMMA Started ==
    ASSUME SETypeOK, Owned, NEW c \in Caller, call[c] \in Waits \cup Entries
    PROVE  /\ call[c] \notin Outside /\ Using(c) \in Helpers /\ Using(c) \in 1..opened
           /\ Loading(c) => Using(c) = opened
           /\ ~Loading(c) => Using(c) = helper /\ helper # NoHelper
<1>1. call[c] \notin Outside
  BY DEF Outside, Waits, Entries
<1>2. opened \in 1..MaxHelpers /\ helper \in 0..opened /\ MaxHelpers \in Nat
  BY SEAssumption DEF SETypeOK, Helpers
<1>3. Loading(c) => Using(c) = opened
  BY DEF Loading, Using
<1>4. ~Loading(c) => Using(c) = helper /\ helper # NoHelper
  BY DEF Loading, Using, Owned, Waits, Entries
<1> QED
  BY <1>1, <1>2, <1>3, <1>4 DEF Helpers, NoHelper

-----------------------------------------------------------------------------
\* Helpers stay in step when nobody begins or ends to wait.
LEMMA StaysInStep ==
    ASSUME InStep, done \subseteq done',
           \A h \in Helpers \ done' : inbox'[h] = inbox[h] /\ pipe'[h] = pipe[h],
           \A d \in Caller : call'[d] \in Waits <=> call[d] \in Waits,
           \A d \in Caller : call[d] \in Waits =>
             call'[d] = call[d] /\ mine'[d] = mine[d] /\ opened' = opened /\ helper' = helper
    PROVE  InStep'
<1>1. ASSUME NEW d \in Caller, NEW h \in Helpers PROVE Waiting(d, h)' <=> Waiting(d, h)
  BY DEF Waiting, Using
<1>2. ASSUME NEW d \in Caller, NEW h \in Helpers, Waiting(d, h) PROVE Asked(d)' = Asked(d)
  BY <1>2 DEF Waiting, Asked
<1>3. ASSUME NEW h \in Helpers \ done' PROVE Quiet(h)' \/ \E c \in Caller : Pending(c, h)'
  <2>1. CASE Quiet(h)
    BY <1>1, <1>3, <2>1, Zenon DEF Quiet
  <2>2. ASSUME NEW c \in Caller, Pending(c, h) PROVE Pending(c, h)'
    BY <1>1, <1>2, <1>3, <2>2, Zenon DEF Pending
  <2> QED
    BY <1>3, <2>1, <2>2 DEF InStep
<1> QED
  BY <1>3 DEF InStep

\* The holder of the mutex goes to a place where it does not wait: what it
\* waited for is closed, or empty.
LEMMA GoesOn ==
    ASSUME SETypeOK, InStep, NEW c \in Caller, call[c] \notin Outside,
           NEW l, l \notin Waits, call' = [call EXCEPT ![c] = l], done \subseteq done',
           \A h \in Helpers \ done' : IF Waiting(c, h) THEN inbox'[h] = Nothing /\ pipe'[h] = <<>>
                                      ELSE inbox'[h] = inbox[h] /\ pipe'[h] = pipe[h]
    PROVE  InStep'
<1>1. ASSUME NEW d \in Caller PROVE call'[d] \notin Waits
  BY Holder, Zenon DEF SETypeOK
<1>2. ASSUME NEW h \in Helpers \ done' PROVE inbox'[h] = Nothing /\ pipe'[h] = <<>>
  <2>1. CASE Waiting(c, h)
    BY <1>2, <2>1
  <2>2. CASE ~Waiting(c, h)
    <3>1. \A d \in Caller : ~Waiting(d, h)
      BY <2>2, Holder DEF Waiting
    <3>2. Quiet(h)
      BY <1>2, <3>1, Zenon DEF InStep, Pending
    <3> QED
      BY <1>2, <2>2, <3>2 DEF Quiet
  <2> QED
    BY <2>1, <2>2, Zenon
<1>3. ASSUME NEW h \in Helpers \ done' PROVE Quiet(h)'
  BY <1>1, <1>2 DEF Quiet, Waiting
<1> QED
  BY <1>3, Zenon DEF InStep

\* An answer that is read is the one that was asked for.
LEMMA OwnAnswer ==
    ASSUME SETypeOK, Pipes, Owned, InStep, NEW c \in Caller, NEW place \in Waits, Answered(c, place)
    PROVE  /\ Using(c) \in Helpers \ done /\ Waiting(c, Using(c)) /\ inbox[Using(c)] = Nothing
           /\ Head(pipe[Using(c)]).of = Asked(c) /\ Tail(pipe[Using(c)]) = <<>>
<1> DEFINE h == Using(c)
<1>1. call[c] = place /\ h \notin done /\ pipe[h] # <<>>
  BY DEF Answered, Readable
<1>2. h \in Helpers /\ call[c] \notin Outside /\ Waiting(c, h)
  BY <1>1, Started DEF Waiting
<1>3. ~Quiet(h)
  BY <1>1, Zenon DEF Quiet
<1>4. PICK d \in Caller : Pending(d, h)
  BY <1>1, <1>2, <1>3 DEF InStep
<1>5. d = c
  BY <1>2, <1>4, Holder, Zenon DEF Pending, Waiting
<1>6. inbox[h] = Nothing /\ Len(pipe[h]) = 1 /\ Head(pipe[h]).of = Asked(c)
  BY <1>1, <1>4, <1>5, Zenon DEF Pending
<1>7. Tail(pipe[h]) = <<>>
  BY <1>2, <1>6 DEF Pipes
<1> QED
  BY <1>1, <1>2, <1>6, <1>7, Zenon

-----------------------------------------------------------------------------
LEMMA WriteInStep ==
    ASSUME SETypeOK, Owned, InStep, NEW c \in Caller,
           NEW from, NEW to, NEW request, Write(c, from, to, request),
           \/ from = "load" /\ to = "loading" /\ request = Load
           \/ from = "ask" /\ to = "asking" /\ request = PublicKey
           \/ from = "sign" /\ to = "signing" /\ request = mine[c]
    PROVE  InStep'
<1> PICK h : h = Using(c)
  OBVIOUS
<1>1. /\ call[c] = from /\ h \in alive /\ inbox' = [inbox EXCEPT ![h] = request]
      /\ call' = [call EXCEPT ![c] = to] /\ UNCHANGED <<mine, helper, opened, done, pipe>>
  BY Zenon DEF Write, Enter, identityVars
<1>2. from \in Entries /\ from \notin Waits /\ to \in Waits
  BY DEF Entries, Waits
<1>3. h \in Helpers /\ call[c] \notin Outside
  BY <1>1, <1>2, Started
<1>4. \A d \in Caller : \A g : ~Waiting(d, g)
  BY <1>1, <1>2, <1>3, Holder DEF Waiting
<1>5. \A g \in Helpers \ done : Quiet(g)
  BY <1>4, Zenon DEF InStep, Pending
<1>6. call'[c] = to /\ Using(c)' = h /\ Asked(c)' = request
  BY <1>1 DEF SETypeOK, Using, Asked
<1>7. ASSUME NEW d \in Caller, d # c PROVE call'[d] \notin Waits
  BY <1>1, <1>3, <1>7, Holder, Zenon DEF SETypeOK
<1>8. ASSUME NEW g \in Helpers \ done', g # h PROVE Quiet(g)'
  <2>1. inbox'[g] = Nothing /\ pipe'[g] = <<>>
    BY <1>1, <1>5, <1>8, Zenon DEF Quiet, SETypeOK
  <2> QED
    BY <1>6, <1>7, <1>8, <2>1, Zenon DEF Quiet, Waiting
<1>9. h \notin done => Pending(c, h)'
  <2>1. ASSUME h \notin done PROVE inbox'[h] = request /\ pipe'[h] = <<>>
    BY <1>1, <1>3, <1>5, <2>1, Zenon DEF Quiet, SETypeOK
  <2> QED
    BY <1>2, <1>6, <2>1, Zenon DEF Pending, Waiting
<1>10. ASSUME NEW g \in Helpers \ done' PROVE Quiet(g)' \/ \E d \in Caller : Pending(d, g)'
  <2>1. CASE g = h
    <3>1. Pending(c, g)'
      BY <1>1, <1>9, <2>1, Zenon
    <3> QED
      BY <3>1
  <2>2. CASE g # h
    BY <1>8, <2>2, Zenon
  <2> QED
    BY <2>1, <2>2
<1> QED
  BY <1>10, Zenon DEF InStep

LEMMA ReplyInStep ==
    ASSUME SETypeOK, Pipes, InStep, NEW h \in Helpers, Reply(h)
    PROVE  InStep' /\ Pipes'
<1>1. PICK s \in {"ok", "error", "bad"} :
        pipe' = [pipe EXCEPT ![h] = Append(@, [of |-> inbox[h], status |-> s])]
  BY Zenon DEF Reply
<1>2. /\ h \in alive /\ inbox[h] # Nothing /\ inbox' = [inbox EXCEPT ![h] = Nothing]
      /\ UNCHANGED <<call, mine, helper, opened, done>>
  BY DEF Reply, identityVars
<1>3. h \notin done
  BY <1>2 DEF SETypeOK
<1>4. PICK c \in Caller : Pending(c, h)
  BY <1>2, <1>3, Zenon DEF InStep, Quiet
<1>5. Waiting(c, h) /\ inbox[h] = Asked(c) /\ pipe[h] = <<>>
  BY <1>2, <1>4, Zenon DEF Pending
<1>6. /\ inbox'[h] = Nothing /\ pipe'[h] = <<[of |-> Asked(c), status |-> s]>>
      /\ \A g \in Helpers : g # h => inbox'[g] = inbox[g] /\ pipe'[g] = pipe[g]
  BY <1>1, <1>2, <1>5 DEF SETypeOK, Pipes
<1>7. /\ \A d \in Caller : Asked(d)' = Asked(d)
      /\ \A d \in Caller, g \in Helpers : Waiting(d, g)' <=> Waiting(d, g)
  BY <1>2 DEF Asked, Waiting, Using
<1>8. Pending(c, h)'
  <2>1. Len(pipe'[h]) = 1 /\ Head(pipe'[h]).of = Asked(c)
    <3>1. pipe'[h] = <<[of |-> Asked(c), status |-> s]>>
      BY <1>6, Zenon
    <3>2. /\ Len(<<[of |-> Asked(c), status |-> s]>>) = 1
          /\ Head(<<[of |-> Asked(c), status |-> s]>>).of = Asked(c)
      OBVIOUS
    <3> QED
      BY <3>1, <3>2, Zenon
  <2> QED
    BY <1>5, <1>6, <1>7, <2>1, Zenon DEF Pending
<1>9. ASSUME NEW g \in Helpers \ done', g # h PROVE Quiet(g)' \/ \E d \in Caller : Pending(d, g)'
  <2>1. CASE Quiet(g)
    BY <1>6, <1>7, <1>9, <2>1, Zenon DEF Quiet
  <2>2. ASSUME NEW d \in Caller, Pending(d, g) PROVE Pending(d, g)'
    BY <1>6, <1>7, <1>9, <2>2, Zenon DEF Pending
  <2> QED
    BY <1>2, <1>9, <2>1, <2>2 DEF InStep
<1>10. InStep'
  BY <1>8, <1>9 DEF InStep
<1>11. [of |-> inbox[h], status |-> s] \in Answer
  <2>1. inbox[h] \in -2..MaxSigns
    <3>1. mine[c] \in 0..MaxSigns /\ MaxSigns \in Nat
      BY SEAssumption DEF SETypeOK
    <3> QED
      BY <1>5, <3>1 DEF Asked, Load, PublicKey
  <2> QED
    BY <2>1 DEF Answer
<1>12. Pipes'
  <2>1. pipe' \in [Helpers -> Seq(Answer)]
    BY <1>1, <1>11 DEF Pipes
  <2>2. Len(pipe'[h]) = 1
    BY <1>6
  <2>3. ASSUME NEW g \in Helpers PROVE Len(pipe'[g]) <= 1
    <3>1. CASE g = h
      <4>1. Len(pipe'[g]) = 1
        BY <2>2, <3>1, Zenon
      <4> QED
        BY <4>1
    <3>2. CASE g # h
      <4>1. pipe'[g] = pipe[g]
        BY <1>6, <3>2, Zenon
      <4> QED
        BY <4>1 DEF Pipes
    <3> QED
      BY <3>1, <3>2
  <2> QED
    BY <2>1, <2>3, Zenon DEF Pipes
<1> QED
  BY <1>10, <1>12

LEMMA Single ==
    ASSUME NEW S, NEW t \in Seq(S), Len(t) <= 1, t # <<>>
    PROVE  Len(t) = 1 /\ Tail(t) = <<>>
<1>1. Len(t) \in Nat /\ Len(t) # 0
  BY EmptySeq
<1>2. Len(t) = 1
  BY <1>1
<1>3. Tail(t) \in Seq(S) /\ Len(Tail(t)) = 0
  BY <1>2
<1> QED
  BY <1>2, <1>3, EmptySeq, Zenon

LEMMA Singleton ==
    ASSUME NEW S, NEW x \in S
    PROVE  <<x>> \o <<>> = <<x>> /\ <<x>> \in Seq(S) /\ Len(<<x>>) = 1
  OBVIOUS

\* What a failed call leaves in the pipe.
LEMMA RestFits ==
    ASSUME Pipes, NEW h \in Helpers
    PROVE  Rest(h) \in Seq(Answer) /\ Len(Rest(h)) <= 1
<1>1. PICK g \in Answer : g = [of |-> Garbage, status |-> "ok"]
  <2>1. -2 \in -2..MaxSigns
    BY SEAssumption
  <2> QED
    BY <2>1, Zenon DEF Answer, Garbage
<1>2. pipe[h] \in Seq(Answer) /\ Len(pipe[h]) <= 1
  BY DEF Pipes
<1>3. CASE ~Readable(h)
  BY <1>2, <1>3 DEF Rest
<1>4. CASE Readable(h)
  <2>1. pipe[h] # <<>>
    BY <1>4 DEF Readable
  <2>2. Len(pipe[h]) = 1 /\ Tail(pipe[h]) = <<>>
    BY <1>2, <2>1, Single, Zenon
  <2>3. <<g>> \o Tail(pipe[h]) = <<g>> /\ <<g>> \in Seq(Answer) /\ Len(<<g>>) = 1
    BY <2>2, Singleton, Zenon
  <2>4. Rest(h) = <<g>> \/ Rest(h) = <<>>
    BY <1>1, <1>4, <2>2, <2>3, Zenon DEF Rest
  <2>5. CASE Rest(h) = <<g>>
    <3>1. Rest(h) \in Seq(Answer) /\ Len(Rest(h)) = 1
      BY <2>3, <2>5, Zenon
    <3> QED
      BY <3>1
  <2>6. CASE Rest(h) = <<>>
    BY <2>6
  <2> QED
    BY <2>4, <2>5, <2>6
<1> QED
  BY <1>3, <1>4

LEMMA PipesStep ==
    ASSUME SETypeOK, Pipes, Owned, InStep, [SENext]_seVars
    PROVE  Pipes'
<1>1. CASE UNCHANGED pipe
  BY <1>1 DEF Pipes
<1>2. ASSUME NEW h \in Helpers, pipe[h] # <<>>, Taken(h) PROVE Pipes'
  <2>1. Tail(pipe[h]) \in Seq(Answer) /\ Len(Tail(pipe[h])) <= 1
    BY <1>2 DEF Pipes
  <2> QED
    BY <1>2, <2>1 DEF Pipes, Taken
<1>3. ASSUME NEW c \in Caller, Loaded(c) \/ Public(c) \/ Signed(c) PROVE Pipes'
  <2>1. PICK place \in Waits : Answered(c, place) /\ Taken(Using(c))
    BY <1>3, Zenon DEF Loaded, Public, Signed, Answered, Using, Waits
  <2>2. Using(c) \in Helpers /\ pipe[Using(c)] # <<>>
    BY <2>1, OwnAnswer, Zenon DEF Answered, Readable
  <2> QED
    BY <1>2, <2>1, <2>2
<1>4. ASSUME NEW c \in Caller, Failed(c) PROVE Pipes'
  <2>1. call[c] \in Waits \cup Entries
    BY <1>4, Zenon DEF Failed, CallFails
  <2>2. Using(c) \in Helpers
    BY <2>1, Started
  <2>3. pipe' = [pipe EXCEPT ![Using(c)] = IF call[c] \in Waits THEN Rest(Using(c)) ELSE @]
    BY <1>4 DEF Failed
  <2> QED
    BY <2>2, <2>3, RestFits DEF Pipes
<1>5. ASSUME NEW h \in Helpers, Reply(h) PROVE Pipes'
  BY <1>5, ReplyInStep
<1>6. ASSUME NEW c \in Caller, Sign(c) \/ Close(c) \/ Cancel(c) PROVE UNCHANGED pipe
  BY <1>6 DEF Sign, Close, Cancel, procVars
<1>7. ASSUME NEW c \in Caller, Lock(c) \/ Closed(c) \/ Refused(c) \/ Reuse(c) \/ Open(c) \/ OpenFailed(c) \/ Kill(c)
             \/ KeyChanged(c)
      PROVE  UNCHANGED pipe
  BY <1>7, Zenon DEF Lock, Closed, Refused, Reuse, Open, OpenFailed, Kill, KeyChanged, HelperClose, procVars
<1>8. ASSUME NEW c \in Caller, NEW from, NEW to, NEW request, Write(c, from, to, request) PROVE UNCHANGED pipe
  BY <1>8 DEF Write
<1>9. ASSUME NEW h \in Helpers, Die(h) \/ Reap(h) PROVE UNCHANGED pipe
  BY <1>9, Zenon DEF Die, Reap
<1>10. CASE UNCHANGED seVars
  BY <1>1, <1>10 DEF seVars
<1>11. ASSUME NEW c \in Caller, Step(c) PROVE Pipes'
  BY <1>1, <1>3, <1>4, <1>7, <1>8, <1>11, Zenon DEF Step
<1> QED
  BY <1>1, <1>5, <1>6, <1>9, <1>10, <1>11 DEF SENext

\* What a call that is not waiting does to the pipes, and what one that is.
LEMMA InStepStep ==
    ASSUME SETypeOK, Pipes, Owned, InStep, [SENext]_seVars
    PROVE  InStep'
<1>1. ASSUME NEW c \in Caller, Sign(c) \/ Close(c) \/ Cancel(c) \/ Lock(c) \/ Closed(c) PROVE InStep'
  <2>1. /\ done \subseteq done' /\ inbox' = inbox /\ pipe' = pipe /\ opened' = opened
        /\ \A d \in Caller : call'[d] # call[d] \/ mine'[d] # mine[d] => call[d] \notin Waits /\ call'[d] \notin Waits
    BY <1>1, Zenon DEF Sign, Close, Cancel, Lock, Closed, HelperClose, procVars, Enter, Waits, SETypeOK
  <2>2. ASSUME NEW d \in Caller, call[d] \in Waits PROVE helper' = helper
    <3>1. mu = d
      BY <2>2, Zenon DEF SETypeOK, Waits
    <3>2. ~Closed(c)
      BY <3>1, SEAssumption DEF Closed
    <3> QED
      BY <1>1, <3>2, Zenon DEF Sign, Close, Cancel, Lock, identityVars
  <2> QED
    BY <2>1, <2>2, StaysInStep
<1>2. ASSUME NEW c \in Caller, Refused(c) \/ Reuse(c) \/ Open(c) \/ OpenFailed(c) PROVE InStep'
  <2>1. call[c] = "ready"
    BY <1>2, Zenon DEF Refused, Reuse, Open, OpenFailed, Usable
  <2>2. call[c] \notin Outside /\ \A h : ~Waiting(c, h)
    BY <2>1 DEF Outside, Waiting, Waits
  <2>3. done' = done /\ inbox' = inbox /\ pipe' = pipe
    BY <1>2, Zenon DEF Refused, Reuse, Open, OpenFailed, procVars
  <2>4. PICK l \in {"idle", "sign", "load"} : call' = [call EXCEPT ![c] = l]
    BY <1>2, Zenon DEF Refused, Reuse, Open, OpenFailed, Return, Enter
  <2> QED
    BY <2>2, <2>3, <2>4, GoesOn, Zenon DEF Waits
<1>3. ASSUME NEW c \in Caller, Loaded(c) \/ Public(c) \/ Signed(c) PROVE InStep'
  <2>1. PICK place \in Waits : Answered(c, place) /\ Taken(Using(c))
    BY <1>3, Zenon DEF Loaded, Public, Signed, Answered, Using, Waits
  <2>2. PICK l \in {"idle", "sign", "ask"} : call' = [call EXCEPT ![c] = l]
    BY <1>3 DEF Loaded, Public, Signed, Return, Enter
  <2>3. call[c] \notin Outside /\ l \notin Waits
    BY <2>1, Zenon DEF Answered, Waits, Outside
  <2>4. /\ Using(c) \in Helpers \ done /\ inbox[Using(c)] = Nothing /\ Tail(pipe[Using(c)]) = <<>>
    BY <2>1, OwnAnswer
  <2>5. /\ pipe' = [pipe EXCEPT ![Using(c)] = Tail(@)] /\ done' = done /\ inbox' = inbox
    BY <2>1 DEF Taken
  <2>6. ASSUME NEW h \in Helpers \ done'
        PROVE  IF Waiting(c, h) THEN inbox'[h] = Nothing /\ pipe'[h] = <<>>
                                ELSE inbox'[h] = inbox[h] /\ pipe'[h] = pipe[h]
    <3>1. CASE h = Using(c)
      <4>1. Waiting(c, h) /\ pipe'[h] = <<>>
        BY <2>1, <2>4, <2>5, <3>1 DEF Waiting, Answered, Pipes
      <4> QED
        BY <2>4, <2>5, <3>1, <4>1
    <3>2. CASE h # Using(c)
      BY <2>5, <3>2 DEF Waiting, Pipes
    <3> QED
      BY <3>1, <3>2, Zenon
  <2> QED
    BY <2>2, <2>3, <2>5, <2>6, GoesOn, Zenon
<1>4. ASSUME NEW c \in Caller, KeyChanged(c) \/ Failed(c) PROVE InStep'
  <2>1. call[c] \in Waits \cup Entries /\ call[c] \notin Outside
    BY <1>4, Zenon DEF KeyChanged, Answered, Failed, CallFails, Waits, Entries, Outside
  <2>2. /\ done' = done \cup {Using(c)} /\ inbox' = inbox /\ call' = [call EXCEPT ![c] = "idle"]
        /\ \A h \in Helpers : h # Using(c) => pipe'[h] = pipe[h]
    <3>1. CASE KeyChanged(c)
      <4>1. Using(c) = opened
        BY <3>1, Zenon DEF KeyChanged, Answered, Using
      <4> QED
        BY <3>1, <4>1, Zenon DEF KeyChanged, HelperClose, Return, Enter
    <3>2. CASE Failed(c)
      BY <3>2 DEF Failed, Return, Enter, Pipes
    <3> QED
      BY <1>4, <3>1, <3>2, Zenon
  <2>3. \A h \in Helpers \ done' : ~Waiting(c, h) /\ inbox'[h] = inbox[h] /\ pipe'[h] = pipe[h]
    BY <2>2, Zenon DEF Waiting
  <2>4. "idle" \notin Waits /\ done \subseteq done'
    BY <2>2 DEF Waits
  <2> QED
    BY <2>1, <2>2, <2>3, <2>4, GoesOn, Zenon
<1>5. ASSUME NEW c \in Caller, Kill(c) PROVE InStep'
  BY <1>5, StaysInStep DEF Kill, identityVars
<1>6. ASSUME NEW h \in Helpers, Die(h) \/ Reap(h) PROVE InStep'
  <2>1. done \subseteq done' /\ UNCHANGED <<inbox, pipe, call, mine, opened, helper>>
    BY <1>6 DEF Die, Reap, identityVars
  <2> QED
    BY <2>1, StaysInStep
<1>7. CASE UNCHANGED seVars
  BY <1>7, StaysInStep, Zenon DEF seVars
<1>8. ASSUME NEW c \in Caller, Step(c) PROVE InStep'
  BY <1>1, <1>2, <1>3, <1>4, <1>5, <1>8, WriteInStep, Zenon DEF Step
<1>9. ASSUME NEW h \in Helpers, Reply(h) PROVE InStep'
  BY <1>9, ReplyInStep
<1>10. CASE SENext
  BY <1>1, <1>6, <1>8, <1>9, <1>10, Zenon DEF SENext
<1> QED
  BY <1>7, <1>10

\* Results.
LEMMA OwnStep ==
    ASSUME SETypeOK, Pipes, Owned, InStep, OwnSignature, [SENext]_seVars
    PROVE  OwnSignature'
<1>1. CASE UNCHANGED <<result, mine>>
  BY <1>1 DEF OwnSignature
<1>2. ASSUME NEW c \in Caller, NEW r \in {Nothing, Error}, result' = [result EXCEPT ![c] = r],
             mine' = mine \/ \E n : mine' = [mine EXCEPT ![c] = n]
      PROVE  OwnSignature'
  <2>1. ASSUME NEW d \in Caller PROVE result'[d] \in {Nothing, Error, mine'[d]}
    <3>1. CASE d = c
      BY <1>2, <3>1 DEF SETypeOK
    <3>2. CASE d # c
      BY <1>2, <3>2 DEF SETypeOK, OwnSignature
    <3> QED
      BY <3>1, <3>2
  <2> QED
    BY <2>1 DEF OwnSignature
<1>3. ASSUME NEW c \in Caller, Signed(c) PROVE OwnSignature'
  <2>1. /\ Answered(c, "signing") /\ result' = [result EXCEPT ![c] = Head(pipe[helper]).of] /\ mine' = mine
    BY <1>3 DEF Signed, Return
  <2>2. call[c] = "signing" /\ Using(c) = helper /\ Asked(c) = mine[c]
    BY <2>1 DEF Answered, Using, Asked
  <2>3. Head(pipe[helper]).of = mine[c]
    BY <2>1, <2>2, OwnAnswer, Zenon DEF Waits
  <2> QED
    BY <2>1, <2>3 DEF OwnSignature, SETypeOK
<1>4. ASSUME NEW c \in Caller, Sign(c) \/ Close(c) PROVE OwnSignature'
  BY <1>2, <1>4 DEF Sign, Close
<1>5. ASSUME NEW c \in Caller, Refused(c) \/ OpenFailed(c) \/ KeyChanged(c) \/ Failed(c) PROVE OwnSignature'
  BY <1>2, <1>5, Zenon DEF Refused, OpenFailed, KeyChanged, Failed, Return
<1>6. ASSUME NEW c \in Caller, Cancel(c) \/ Lock(c) \/ Closed(c) \/ Reuse(c) \/ Open(c) \/ Kill(c) \/ Loaded(c) \/ Public(c)
      PROVE  UNCHANGED <<result, mine>>
  BY <1>6, Zenon DEF Cancel, Lock, Closed, Reuse, Open, Kill, Loaded, Public
<1>7. ASSUME NEW c \in Caller, NEW from, NEW to, NEW request, Write(c, from, to, request)
      PROVE  UNCHANGED <<result, mine>>
  BY <1>7, Zenon DEF Write
<1>8. ASSUME NEW h \in Helpers, Reply(h) \/ Die(h) \/ Reap(h) PROVE UNCHANGED <<result, mine>>
  BY <1>8, Zenon DEF Reply, Die, Reap
<1>9. CASE UNCHANGED seVars
  BY <1>1, <1>9 DEF seVars
<1>10. ASSUME NEW c \in Caller, Step(c) PROVE OwnSignature'
  BY <1>1, <1>3, <1>5, <1>6, <1>7, <1>10, Zenon DEF Step
<1>11. CASE SENext
  BY <1>1, <1>4, <1>6, <1>8, <1>10, <1>11, Zenon DEF SENext
<1> QED
  BY <1>9, <1>11

-----------------------------------------------------------------------------
\* A step that starts no helper, drops none and takes no caller into or out of
\* a call leaves the helpers owned.
LEMMA StaysOwned ==
    ASSUME Owned, done \subseteq done', UNCHANGED <<opened, helper, key, public, closed>>,
           \A d \in Caller : Loading(d)' <=> Loading(d),
           \A d \in Caller : call'[d] \in {"sign", "signing"} => call[d] \in {"sign", "signing"},
           closed => \A d \in Caller : call'[d] \in {"idle", "lock", "lockClose", "ready"}
    PROVE  Owned'
  BY Zenon DEF Owned

\* The holder of the mutex drops the helper it used.
LEMMA Drops ==
    ASSUME SETypeOK, Owned, NEW c \in Caller, call[c] \notin Outside, call' = [call EXCEPT ![c] = "idle"],
           UNCHANGED <<opened, public, key, closed>>, helper' = NoHelper, done \subseteq done',
           helper # NoHelper => helper \in done', Loading(c) => opened \in done'
    PROVE  Owned'
<1>1. ASSUME NEW d \in Caller PROVE call'[d] \in Outside /\ ~Loading(d)'
  BY Holder DEF SETypeOK, Outside, Loading
<1>2. ASSUME NEW h \in 1..opened' PROVE h \in done'
  <2>1. CASE h = opened /\ \E d \in Caller : Loading(d)
    BY <2>1, Holder
  <2>2. CASE h = helper
    <3>1. helper # NoHelper
      BY <1>2, <2>2 DEF NoHelper
    <3> QED
      BY <2>2, <3>1
  <2> QED
    BY <1>2, <2>1, <2>2 DEF Owned
<1> QED
  BY <1>1, <1>2 DEF Owned, Outside

LEMMA OwnedStep ==
    ASSUME SETypeOK, Pipes, Owned, InStep, [SENext]_seVars
    PROVE  Owned' /\ SameKey
<1> SUFFICES Owned' /\ public' = public
  BY Zenon DEF Owned, SameKey
<1> USE DEF NoHelper
<1>1. ASSUME NEW c \in Caller, Sign(c) \/ Close(c) \/ Cancel(c) \/ Lock(c)
      PROVE  Owned' /\ public' = public
  <2>1. UNCHANGED <<opened, done, helper, key, public, closed>>
    BY <1>1 DEF Sign, Close, Cancel, Lock, identityVars, procVars
  <2>2. /\ \A d \in Caller : Loading(d)' <=> Loading(d)
        /\ \A d \in Caller : call'[d] \in {"sign", "signing"} => call[d] \in {"sign", "signing"}
        /\ \A d \in Caller : call[d] \in {"idle", "lock", "lockClose", "ready"} =>
             call'[d] \in {"idle", "lock", "lockClose", "ready"}
    BY <1>1 DEF Sign, Close, Cancel, Lock, Enter, Loading, SETypeOK
  <2>3. closed => \A d \in Caller : call'[d] \in {"idle", "lock", "lockClose", "ready"}
    BY <2>2, Zenon DEF Owned
  <2> QED
    BY <2>1, <2>2, <2>3, StaysOwned, Zenon
<1>2. ASSUME NEW c \in Caller, Closed(c) PROVE Owned' /\ public' = public
  <2>1. /\ call[c] = "lockClose" /\ mu = Nobody /\ call' = [call EXCEPT ![c] = "idle"] /\ helper' = NoHelper
        /\ UNCHANGED <<public, opened, key>> /\ done' = done \cup ({helper} \ {NoHelper})
    BY <1>2 DEF Closed, Enter, HelperClose, procVars
  <2>2. ASSUME NEW d \in Caller PROVE call[d] \in Outside /\ call'[d] \in Outside /\ ~Loading(d) /\ ~Loading(d)'
    BY <2>1, SEAssumption DEF SETypeOK, Outside, Loading
  <2>3. \A h \in 1..opened' : h \in done'
    BY <2>1, <2>2 DEF Owned
  <2> QED
    BY <2>1, <2>2, <2>3 DEF Owned, Outside
<1>3. ASSUME NEW c \in Caller, Refused(c) PROVE Owned' /\ public' = public
  <2>1. /\ call[c] = "ready" /\ call' = [call EXCEPT ![c] = "idle"]
        /\ UNCHANGED <<opened, done, helper, key, public, closed>>
    BY <1>3 DEF Refused, Return, Enter, identityVars, procVars
  <2>2. \A d \in Caller : call'[d] = call[d] \/ (call[d] = "ready" /\ call'[d] = "idle")
    BY <2>1 DEF SETypeOK
  <2> QED
    BY <2>1, <2>2 DEF Owned, Loading
<1>4. ASSUME NEW c \in Caller, Reuse(c) PROVE Owned' /\ public' = public
  <2>1. /\ call[c] = "ready" /\ call' = [call EXCEPT ![c] = "sign"] /\ helper # NoHelper /\ ~closed
        /\ UNCHANGED <<opened, done, helper, key, public, closed>>
    BY <1>4, Zenon DEF Reuse, Usable, Enter, identityVars, procVars
  <2>2. \A d \in Caller : call'[d] = call[d] \/ (call[d] = "ready" /\ call'[d] = "sign")
    BY <2>1 DEF SETypeOK
  <2> QED
    BY <2>1, <2>2 DEF Owned, Loading
<1>5. ASSUME NEW c \in Caller, Open(c) PROVE Owned' /\ public' = public
  <2>1. /\ call[c] = "ready" /\ call' = [call EXCEPT ![c] = "load"] /\ helper' = NoHelper /\ ~closed
        /\ opened' = opened + 1 /\ UNCHANGED <<done, public, closed>> /\ (helper = NoHelper \/ helper \in done)
    BY <1>5, Zenon DEF Open, Usable, Enter
  <2>2. call[c] \notin Outside /\ ~Loading(c)
    BY <2>1 DEF Outside, Loading
  <2>3. ASSUME NEW d \in Caller PROVE ~Loading(d) /\ (call'[d] \in Outside \/ call'[d] = "load")
    BY <2>1, <2>2, Holder, Zenon DEF SETypeOK
  <2>4. Loading(c)'
    BY <2>1 DEF SETypeOK, Loading
  <2>5. \A h \in 1..opened : h \in done
    BY <2>1, <2>3 DEF Owned
  <2>6. ASSUME NEW h \in 1..opened' PROVE h \in done' \/ h = opened'
    BY <2>1, <2>5, <2>6 DEF SETypeOK, Helpers
  <2> QED
    BY <2>1, <2>3, <2>4, <2>6, Zenon DEF Owned, Outside
<1>6. ASSUME NEW c \in Caller, OpenFailed(c) PROVE Owned' /\ public' = public
  <2>1. /\ call[c] = "ready" /\ call' = [call EXCEPT ![c] = "idle"] /\ helper' = NoHelper
        /\ (helper = NoHelper \/ helper \in done) /\ UNCHANGED <<opened, done, key, public, closed>>
    BY <1>6, Zenon DEF OpenFailed, Usable, Return, Enter, procVars
  <2>2. call[c] \notin Outside /\ ~Loading(c)
    BY <2>1 DEF Outside, Loading
  <2> QED
    BY <2>1, <2>2, Drops, Zenon
<1>7. ASSUME NEW c \in Caller, NEW from, NEW to, NEW request, Write(c, from, to, request),
             <<from, to>> \in {<<"load", "loading">>, <<"ask", "asking">>, <<"sign", "signing">>}
      PROVE  Owned' /\ public' = public
  <2>1. call[c] = from /\ call' = [call EXCEPT ![c] = to] /\ UNCHANGED <<opened, done, helper, key, public, closed>>
    BY <1>7 DEF Write, Enter, identityVars
  <2>2. /\ \A d \in Caller : Loading(d)' <=> Loading(d)
        /\ \A d \in Caller : call'[d] \in {"sign", "signing"} => call[d] \in {"sign", "signing"}
    BY <1>7, <2>1 DEF SETypeOK, Loading
  <2>3. ~closed
    BY <1>7, <2>1 DEF Owned
  <2> QED
    BY <2>1, <2>2, <2>3, StaysOwned
<1>8. ASSUME NEW c \in Caller, Kill(c) PROVE Owned' /\ public' = public
  BY <1>8 DEF Kill, Owned, Loading, identityVars
<1>9. ASSUME NEW c \in Caller, Loaded(c) PROVE Owned' /\ public' = public
  <2>1. /\ call[c] = "loading" /\ call' = [call EXCEPT ![c] = "ask"]
        /\ UNCHANGED <<opened, done, helper, key, public, closed>>
    BY <1>9 DEF Loaded, Answered, Taken, Enter, identityVars
  <2>2. /\ \A d \in Caller : Loading(d)' <=> Loading(d)
        /\ \A d \in Caller : call'[d] \in {"sign", "signing"} => call[d] \in {"sign", "signing"}
    BY <2>1 DEF SETypeOK, Loading
  <2>3. ~closed
    BY <2>1 DEF Owned
  <2> QED
    BY <2>1, <2>2, <2>3, StaysOwned
<1>10. ASSUME NEW c \in Caller, Public(c) PROVE Owned' /\ public' = public
  <2>1. /\ call[c] = "asking" /\ call' = [call EXCEPT ![c] = "sign"] /\ helper' = opened /\ key[opened] = public
        /\ UNCHANGED <<opened, done, key, public, closed>>
    BY <1>10 DEF Public, Answered, Taken, Enter
  <2>2. call[c] \notin Outside /\ Loading(c)
    BY <2>1 DEF Outside, Loading
  <2>3. ASSUME NEW d \in Caller, d # c PROVE call'[d] \in Outside /\ ~Loading(d)
    BY <2>1, <2>2, <2>3, Holder DEF SETypeOK
  <2>4. call'[c] = "sign"
    BY <2>1 DEF SETypeOK
  <2>5. ~closed /\ helper = NoHelper /\ opened # NoHelper
    <3>1. opened # 0
      BY SEAssumption DEF SETypeOK, Helpers
    <3> QED
      BY <2>1, <2>2, <3>1 DEF Owned
  <2>6. \A h \in 1..opened : h \in done \/ h = opened
    BY <2>5 DEF Owned
  <2>7. \A d \in Caller : ~Loading(d)'
    BY <2>3, <2>4 DEF Loading, Outside
  <2> QED
    BY <2>1, <2>5, <2>6, <2>7 DEF Owned
<1>11. ASSUME NEW c \in Caller, KeyChanged(c) PROVE Owned' /\ public' = public
  <2>1. /\ call[c] = "asking" /\ call' = [call EXCEPT ![c] = "idle"] /\ done' = done \cup {opened}
        /\ UNCHANGED <<opened, helper, key, public, closed>>
    BY <1>11 DEF KeyChanged, Answered, HelperClose, Return, Enter, identityVars
  <2>2. call[c] \notin Outside /\ helper = NoHelper
    BY <2>1 DEF Outside, Owned, Loading
  <2> QED
    BY <2>1, <2>2, Drops, Zenon
<1>12. ASSUME NEW c \in Caller, Signed(c) PROVE Owned' /\ public' = public
  <2>1. /\ call[c] = "signing" /\ call' = [call EXCEPT ![c] = "idle"]
        /\ UNCHANGED <<opened, done, helper, key, public, closed>>
    BY <1>12 DEF Signed, Answered, Taken, Return, Enter, identityVars
  <2>2. \A d \in Caller : call'[d] = call[d] \/ (call[d] = "signing" /\ call'[d] = "idle")
    BY <2>1 DEF SETypeOK
  <2> QED
    BY <2>1, <2>2 DEF Owned, Loading
<1>13. ASSUME NEW c \in Caller, Failed(c) PROVE Owned' /\ public' = public
  <2>1. /\ call[c] \in Waits \cup Entries /\ call' = [call EXCEPT ![c] = "idle"] /\ done' = done \cup {Using(c)}
        /\ helper' = NoHelper /\ UNCHANGED <<opened, key, public, closed>>
    BY <1>13, Zenon DEF Failed, CallFails, Return, Enter
  <2>2. /\ call[c] \notin Outside /\ (Loading(c) => Using(c) = opened /\ helper = NoHelper)
        /\ (~Loading(c) => Using(c) = helper)
    BY <2>1, Started DEF Owned
  <2> QED
    BY <2>1, <2>2, Drops, Zenon
<1>14. ASSUME NEW h \in Helpers, Reply(h) \/ Die(h) \/ Reap(h) PROVE Owned' /\ public' = public
  <2>1. done \subseteq done' /\ UNCHANGED <<call, opened, helper, key, public, closed>>
    BY <1>14, Zenon DEF Reply, Die, Reap, identityVars
  <2> QED
    BY <2>1 DEF Owned, Loading
<1>15. CASE UNCHANGED seVars
  BY <1>15 DEF seVars, Owned, Loading
<1>16. ASSUME NEW c \in Caller, Step(c) PROVE Owned' /\ public' = public
  <2>1. /\ <<"load", "loading">> \in {<<"load", "loading">>, <<"ask", "asking">>, <<"sign", "signing">>}
        /\ <<"ask", "asking">> \in {<<"load", "loading">>, <<"ask", "asking">>, <<"sign", "signing">>}
        /\ <<"sign", "signing">> \in {<<"load", "loading">>, <<"ask", "asking">>, <<"sign", "signing">>}
    OBVIOUS
  <2> QED
    BY <1>1, <1>2, <1>3, <1>4, <1>5, <1>6, <1>7, <1>8, <1>9, <1>10, <1>11, <1>12, <1>13, <1>16, <2>1, Zenon DEF Step
<1>17. CASE SENext
  BY <1>1, <1>14, <1>16, <1>17, Zenon DEF SENext
<1> QED
  BY <1>15, <1>17

-----------------------------------------------------------------------------
\* Types of the callers, and of the helpers.
CallerTypes ==
    /\ mu \in Caller \cup {Nobody}
    /\ call \in [Caller -> Waits \cup Entries \cup {"idle", "lock", "lockClose", "ready"}]
    /\ \A c \in Caller : mu = c <=> call[c] \notin {"idle", "lock", "lockClose"}
    /\ ctx \in [Caller -> {"live", "done", "killed"}]
    /\ mine \in [Caller -> 0..MaxSigns] /\ result \in [Caller -> -4..MaxSigns]
    /\ signs \in 0..MaxSigns

HelperTypes ==
    /\ helper \in 0..opened /\ public \in Key /\ closed \in BOOLEAN /\ opened \in Helpers
    /\ alive \subseteq 1..opened /\ done \subseteq 1..opened /\ alive \cap done = {}
    /\ key \in [Helpers -> Key \cup {None}] /\ inbox \in [Helpers -> -4..MaxSigns]

LEMMA TypeParts == ASSUME Pipes PROVE SETypeOK <=> CallerTypes /\ HelperTypes
<1>1. \A h \in Helpers : pipe[h] \in Seq(Answer) /\ Len(pipe[h]) <= 2
  BY DEF Pipes
<1> QED
  BY <1>1 DEF SETypeOK, CallerTypes, HelperTypes

LEMMA TypeWhole == ASSUME Pipes', CallerTypes', HelperTypes' PROVE SETypeOK'
<1>1. \A h \in Helpers : pipe'[h] \in Seq(Answer) /\ Len(pipe'[h]) <= 2
  BY DEF Pipes
<1> QED
  BY <1>1 DEF SETypeOK, CallerTypes, HelperTypes

\* A caller goes on without the mutex, holds it, takes it or returns.
LEMMA GoesTypes ==
    ASSUME CallerTypes, NEW c \in Caller,
           NEW l \in Waits \cup Entries \cup {"idle", "lock", "lockClose", "ready"},
           call' = [call EXCEPT ![c] = l],
           \/ mu' = mu /\ (mu = c <=> l \notin Outside)
           \/ mu' = c /\ mu = Nobody /\ l \notin Outside
           \/ mu' = Nobody /\ mu = c /\ l \in Outside,
           ctx' \in [Caller -> {"live", "done", "killed"}],
           mine' \in [Caller -> 0..MaxSigns], result' \in [Caller -> -4..MaxSigns], signs' \in 0..MaxSigns
    PROVE  CallerTypes'
<1>1. call' \in [Caller -> Waits \cup Entries \cup {"idle", "lock", "lockClose", "ready"}]
  BY DEF CallerTypes
<1>2. mu' \in Caller \cup {Nobody}
  BY DEF CallerTypes
<1>3. ASSUME NEW d \in Caller PROVE mu' = d <=> call'[d] \notin {"idle", "lock", "lockClose"}
  BY SEAssumption DEF CallerTypes, Outside
<1> QED
  BY <1>1, <1>2, <1>3, Zenon DEF CallerTypes

LEMMA CallerStep ==
    ASSUME SETypeOK, Pipes, Owned, InStep, CallerTypes, [SENext]_seVars
    PROVE  CallerTypes'
<1>0. MaxSigns \in Nat
  BY SEAssumption
<1>1. CASE UNCHANGED <<mu, call, ctx, mine, result, signs>>
  BY <1>1 DEF CallerTypes
<1>2. ASSUME NEW c \in Caller, NEW l \in Waits \cup Entries \cup {"ready"}, call[c] \notin Outside,
             call' = [call EXCEPT ![c] = l], UNCHANGED <<mu, ctx, mine, result, signs>>
      PROVE  CallerTypes'
  <2>1. mu = c /\ l \notin Outside
    BY <1>2 DEF CallerTypes, Outside, Waits, Entries
  <2> QED
    BY <1>2, <2>1, GoesTypes, Zenon DEF CallerTypes
<1>3. ASSUME NEW c \in Caller, NEW r \in -4..MaxSigns, call[c] \notin Outside, Return(c, r)
      PROVE  CallerTypes'
  <2>1. mu = c /\ "idle" \in Outside
    BY <1>3 DEF CallerTypes, Outside
  <2>2. result' \in [Caller -> -4..MaxSigns]
    BY <1>3 DEF CallerTypes, Return
  <2> QED
    BY <1>3, <2>1, <2>2, GoesTypes, Zenon DEF CallerTypes, Return, Enter
<1>4. ASSUME NEW c \in Caller, Sign(c) PROVE CallerTypes'
  <2>1. /\ call[c] = "idle" /\ call' = [call EXCEPT ![c] = "lock"] /\ mu' = mu
        /\ mine' = [mine EXCEPT ![c] = signs + 1] /\ signs' = signs + 1 /\ signs < MaxSigns
        /\ result' = [result EXCEPT ![c] = Nothing] /\ ctx' = [ctx EXCEPT ![c] = "live"]
    BY <1>4 DEF Sign, Enter
  <2>2. signs + 1 \in 0..MaxSigns /\ Nothing \in -4..MaxSigns
    BY <1>0, <2>1 DEF CallerTypes, Nothing
  <2>3. /\ ctx' \in [Caller -> {"live", "done", "killed"}] /\ mine' \in [Caller -> 0..MaxSigns]
        /\ result' \in [Caller -> -4..MaxSigns] /\ signs' \in 0..MaxSigns
    BY <2>1, <2>2 DEF CallerTypes
  <2>4. mu # c /\ "lock" \in Outside
    BY <2>1 DEF CallerTypes, Outside
  <2> QED
    BY <2>1, <2>3, <2>4, GoesTypes, Zenon
<1>5. ASSUME NEW c \in Caller, Close(c) PROVE CallerTypes'
  <2>1. /\ call[c] = "idle" /\ call' = [call EXCEPT ![c] = "lockClose"] /\ UNCHANGED <<mu, ctx, mine, signs>>
        /\ result' = [result EXCEPT ![c] = Nothing]
    BY <1>5 DEF Close, Enter
  <2>2. result' \in [Caller -> -4..MaxSigns]
    BY <1>0, <2>1 DEF CallerTypes, Nothing
  <2>3. mu # c /\ "lockClose" \in Outside
    BY <2>1 DEF CallerTypes, Outside
  <2> QED
    BY <2>1, <2>2, <2>3, GoesTypes, Zenon DEF CallerTypes
<1>6. ASSUME NEW c \in Caller, Cancel(c) \/ Kill(c) PROVE CallerTypes'
  <2>1. UNCHANGED <<mu, call, mine, result, signs>> /\ ctx' \in [Caller -> {"live", "done", "killed"}]
    BY <1>6 DEF Cancel, Kill, CallerTypes
  <2> QED
    BY <2>1 DEF CallerTypes
<1>7. ASSUME NEW c \in Caller, Lock(c) PROVE CallerTypes'
  <2>1. /\ mu = Nobody /\ mu' = c /\ call' = [call EXCEPT ![c] = "ready"] /\ UNCHANGED <<ctx, mine, result, signs>>
    BY <1>7 DEF Lock, Enter
  <2>2. "ready" \notin Outside
    BY DEF Outside
  <2> QED
    BY <2>1, <2>2, GoesTypes, Zenon DEF CallerTypes
<1>8. ASSUME NEW c \in Caller, Closed(c) PROVE CallerTypes'
  <2>1. /\ mu = Nobody /\ mu # c /\ call' = [call EXCEPT ![c] = "idle"] /\ UNCHANGED <<mu, ctx, mine, result, signs>>
    BY <1>8, SEAssumption DEF Closed, Enter
  <2>2. "idle" \in Outside
    BY DEF Outside
  <2> QED
    BY <2>1, <2>2, GoesTypes, Zenon DEF CallerTypes
<1>9. ASSUME NEW c \in Caller, Refused(c) \/ OpenFailed(c) \/ KeyChanged(c) \/ Failed(c) PROVE CallerTypes'
  <2>1. Return(c, Error) /\ call[c] \notin Outside
    BY <1>9, Zenon DEF Refused, OpenFailed, Usable, KeyChanged, Answered, Failed, CallFails, Outside, Waits, Entries
  <2>2. Error \in -4..MaxSigns
    BY <1>0 DEF Error
  <2> QED
    BY <1>3, <2>1, <2>2
<1>10. ASSUME NEW c \in Caller, Signed(c) PROVE CallerTypes'
  <2>1. Answered(c, "signing") /\ Return(c, Head(pipe[helper]).of)
    BY <1>10, Zenon DEF Signed
  <2>2. call[c] = "signing" /\ Using(c) = helper /\ Asked(c) = mine[c] /\ call[c] \notin Outside
    BY <2>1 DEF Answered, Using, Asked, Outside
  <2>3. Head(pipe[helper]).of = mine[c]
    BY <2>1, <2>2, OwnAnswer, Zenon DEF Waits
  <2>4. mine[c] \in -4..MaxSigns
    BY <1>0 DEF CallerTypes
  <2> QED
    BY <1>3, <2>1, <2>2, <2>3, <2>4, Zenon
<1>11. ASSUME NEW c \in Caller, Reuse(c) \/ Open(c) \/ Loaded(c) \/ Public(c) PROVE CallerTypes'
  <2>1. call[c] \notin Outside /\ UNCHANGED <<mu, ctx, mine, result, signs>>
    BY <1>11, Zenon DEF Reuse, Open, Usable, Loaded, Public, Answered, Outside
  <2>2. PICK l \in {"sign", "load", "ask"} : call' = [call EXCEPT ![c] = l]
    BY <1>11 DEF Reuse, Open, Loaded, Public, Enter
  <2> QED
    BY <1>2, <2>1, <2>2, Zenon DEF Entries
<1>12. ASSUME NEW c \in Caller, NEW from \in Entries, NEW to \in Waits, NEW request, Write(c, from, to, request)
      PROVE  CallerTypes'
  <2>1. call[c] \notin Outside /\ call' = [call EXCEPT ![c] = to] /\ UNCHANGED <<mu, ctx, mine, result, signs>>
    BY <1>12 DEF Write, Enter, Outside, Entries
  <2> QED
    BY <1>2, <2>1, Zenon
<1>13. ASSUME NEW h \in Helpers, Reply(h) \/ Die(h) \/ Reap(h) PROVE CallerTypes'
  BY <1>1, <1>13, Zenon DEF Reply, Die, Reap
<1>14. CASE UNCHANGED seVars
  BY <1>1, <1>14 DEF seVars
<1>15. ASSUME NEW c \in Caller, Step(c) PROVE CallerTypes'
  <2>1. {"load", "ask", "sign"} \subseteq Entries /\ {"loading", "asking", "signing"} \subseteq Waits
    BY DEF Entries, Waits
  <2>2. /\ "load" \in Entries /\ "ask" \in Entries /\ "sign" \in Entries
        /\ "loading" \in Waits /\ "asking" \in Waits /\ "signing" \in Waits
    BY <2>1
  <2> QED
    BY <1>6, <1>7, <1>8, <1>9, <1>10, <1>11, <1>12, <1>15, <2>2, Zenon DEF Step
<1>16. CASE SENext
  BY <1>4, <1>5, <1>6, <1>13, <1>15, <1>16, Zenon DEF SENext
<1> QED
  BY <1>14, <1>16

LEMMA HelperStep ==
    ASSUME SETypeOK, Pipes, Owned, InStep, HelperTypes, [SENext]_seVars
    PROVE  HelperTypes'
<1>0. /\ MaxSigns \in Nat /\ MaxHelpers \in Nat /\ opened \in Nat /\ opened # 0 /\ opened <= MaxHelpers
  BY SEAssumption DEF HelperTypes, Helpers
<1>1. CASE UNCHANGED <<identityVars, procVars>>
  BY <1>1 DEF HelperTypes, identityVars, procVars
<1>2. ASSUME NEW g, g # 0 => g \in 1..opened, helper' \in 0..opened, closed' \in BOOLEAN,
             alive' = alive \ {g}, done' = done \/ done' = done \cup ({g} \ {0}),
             UNCHANGED <<public, opened, key, inbox>>
      PROVE  HelperTypes'
  <2>1. alive' \subseteq 1..opened /\ done' \subseteq 1..opened /\ alive' \cap done' = {}
    BY <1>2, Zenon DEF HelperTypes
  <2> QED
    BY <1>2, <2>1 DEF HelperTypes
<1>3. ASSUME NEW c \in Caller, Sign(c) \/ Close(c) \/ Cancel(c) \/ Lock(c) \/ Refused(c) \/ Reuse(c)
      PROVE  HelperTypes'
  BY <1>1, <1>3, Zenon DEF Sign, Close, Cancel, Lock, Refused, Reuse
<1>4. ASSUME NEW c \in Caller, Closed(c) PROVE HelperTypes'
  <2>1. helper # 0 => helper \in 1..opened
    BY <1>0 DEF HelperTypes
  <2>2. /\ helper' = 0 /\ closed' = TRUE /\ alive' = alive \ {helper} /\ done' = done \cup ({helper} \ {0})
        /\ UNCHANGED <<public, opened, key, inbox>>
    <3>1. 0 \notin alive
      BY <1>0 DEF HelperTypes
    <3> QED
      BY <1>4, <3>1 DEF Closed, HelperClose, procVars, NoHelper
  <2> QED
    BY <1>0, <1>2, <2>1, <2>2
<1>5. ASSUME NEW c \in Caller, Open(c) PROVE HelperTypes'
  <2>1. PICK k \in Key : key' = [key EXCEPT ![opened + 1] = k]
    BY <1>5, Zenon DEF Open
  <2>2. /\ opened < MaxHelpers /\ opened' = opened + 1 /\ alive' = alive \cup {opened + 1} /\ helper' = 0
        /\ UNCHANGED <<public, closed, done, inbox>>
    BY <1>5 DEF Open, NoHelper
  <2>3. opened' \in Helpers /\ helper' \in 0..opened'
    BY <1>0, <2>2 DEF Helpers
  <2>4. alive' \subseteq 1..opened' /\ done' \subseteq 1..opened' /\ alive' \cap done' = {}
    <3>1. \A h \in 1..opened : h \in 1..opened + 1 /\ h # opened + 1
      BY <1>0
    <3>2. opened + 1 \in 1..opened + 1
      BY <1>0
    <3> QED
      BY <2>2, <3>1, <3>2, Zenon DEF HelperTypes
  <2>5. key' \in [Helpers -> Key \cup {None}]
    BY <2>1, Zenon DEF HelperTypes
  <2> QED
    BY <2>2, <2>3, <2>4, <2>5 DEF HelperTypes
<1>6. ASSUME NEW c \in Caller, OpenFailed(c) PROVE HelperTypes'
  BY <1>0, <1>6 DEF OpenFailed, procVars, NoHelper, HelperTypes
<1>7. ASSUME NEW c \in Caller, NEW from \in Entries, NEW to, NEW request \in -4..MaxSigns,
             Write(c, from, to, request)
      PROVE  HelperTypes'
  BY <1>7, Zenon DEF Write, identityVars, HelperTypes
<1>8. ASSUME NEW c \in Caller, Kill(c) PROVE HelperTypes'
  <2>1. Using(c) \in 1..opened
    BY <1>8, Started DEF Kill
  <2>2. alive' = alive \ {Using(c)} /\ UNCHANGED <<helper, closed, done, public, opened, key, inbox>>
    BY <1>8 DEF Kill, identityVars
  <2> QED
    BY <1>2, <2>1, <2>2 DEF HelperTypes
<1>9. ASSUME NEW c \in Caller, Loaded(c) \/ Signed(c) PROVE HelperTypes'
  BY <1>9, Zenon DEF Loaded, Signed, Taken, identityVars, HelperTypes
<1>10. ASSUME NEW c \in Caller, Public(c) PROVE HelperTypes'
  <2>1. opened \in 0..opened
    BY <1>0
  <2> QED
    BY <1>10, <2>1 DEF Public, Taken, HelperTypes
<1>11. ASSUME NEW c \in Caller, KeyChanged(c) PROVE HelperTypes'
  <2>1. opened \in 1..opened
    BY <1>0
  <2>2. /\ alive' = alive \ {opened} /\ done' = done \cup ({opened} \ {0})
        /\ UNCHANGED <<helper, closed, public, opened, key, inbox>>
    BY <1>0, <1>11 DEF KeyChanged, HelperClose, identityVars
  <2> QED
    BY <1>2, <2>1, <2>2 DEF HelperTypes
<1>12. ASSUME NEW c \in Caller, Failed(c) PROVE HelperTypes'
  <2>1. Using(c) \in 1..opened
    BY <1>12, Started, Zenon DEF Failed, CallFails
  <2>2. Using(c) # 0 /\ 0 \in 0..opened
    BY <1>0, <2>1
  <2>3. /\ alive' = alive \ {Using(c)} /\ done' = done \cup ({Using(c)} \ {0}) /\ helper' = 0
        /\ UNCHANGED <<closed, public, opened, key, inbox>>
    BY <1>12, <2>2 DEF Failed, NoHelper
  <2> QED
    BY <1>2, <2>1, <2>2, <2>3 DEF HelperTypes
<1>13. ASSUME NEW h \in Helpers, Reply(h) PROVE HelperTypes'
  BY <1>0, <1>13 DEF Reply, identityVars, HelperTypes, Nothing
<1>14. ASSUME NEW h \in Helpers, Die(h) PROVE HelperTypes'
  BY <1>14 DEF Die, identityVars, HelperTypes
<1>15. ASSUME NEW h \in Helpers, Reap(h) PROVE HelperTypes'
  BY <1>15 DEF Reap, identityVars, HelperTypes
<1>16. CASE UNCHANGED seVars
  BY <1>1, <1>16 DEF seVars, identityVars, procVars
<1>17. ASSUME NEW c \in Caller, Step(c) PROVE HelperTypes'
  <2>1. /\ "load" \in Entries /\ "ask" \in Entries /\ "sign" \in Entries
    BY DEF Entries
  <2>2. Load \in -4..MaxSigns /\ PublicKey \in -4..MaxSigns /\ mine[c] \in -4..MaxSigns
    BY <1>0 DEF Load, PublicKey, SETypeOK
  <2> QED
    BY <1>3, <1>4, <1>5, <1>6, <1>7, <1>8, <1>9, <1>10, <1>11, <1>12, <1>17, <2>1, <2>2, Zenon DEF Step
<1>18. CASE SENext
  BY <1>3, <1>13, <1>14, <1>15, <1>17, <1>18, Zenon DEF SENext
<1> QED
  BY <1>16, <1>18

LEMMA SEInitInv == ASSUME SEInit PROVE HelperIInv
<1>1. MaxSigns \in Nat /\ MaxHelpers \in Nat \ {0}
  BY SEAssumption
<1>2. Pipes
  BY DEF SEInit, Pipes
<1>3. CallerTypes
  BY <1>1, SEAssumption DEF SEInit, CallerTypes, Nothing
<1>4. HelperTypes
  <2>1. 1 \in Helpers /\ 1 \in 0..1 /\ 1 \in 1..1 /\ Nothing \in -4..MaxSigns
    BY <1>1 DEF Helpers, Nothing
  <2>2. key \in [Helpers -> Key \cup {None}] /\ inbox \in [Helpers -> -4..MaxSigns]
    BY <2>1 DEF SEInit
  <2>3. helper = 1 /\ opened = 1 /\ public \in Key /\ closed = FALSE /\ alive = {1} /\ done = {}
    BY DEF SEInit
  <2> QED
    BY <2>1, <2>2, <2>3, Zenon DEF HelperTypes
<1>5. \A c \in Caller : call[c] = "idle"
  BY Zenon DEF SEInit
<1>6. Owned
  <2>1. 1 \in Helpers
    BY <1>1 DEF Helpers
  <2> QED
    BY <1>5, <2>1 DEF SEInit, Owned, Loading, NoHelper
<1>7. InStep
  BY <1>5 DEF SEInit, InStep, Quiet, Waiting, Waits
<1>8. OwnSignature
  BY Zenon DEF SEInit, OwnSignature
<1> QED
  BY <1>2, <1>3, <1>4, <1>6, <1>7, <1>8, TypeParts DEF HelperIInv

LEMMA InvStep ==
    ASSUME HelperIInv, [SENext]_seVars
    PROVE  HelperIInv' /\ SameKey
<1>1. SETypeOK /\ Pipes /\ Owned /\ InStep /\ OwnSignature /\ CallerTypes /\ HelperTypes
  BY TypeParts DEF HelperIInv
<1>2. Pipes' /\ Owned' /\ InStep' /\ OwnSignature' /\ SameKey
  BY <1>1, PipesStep, OwnedStep, InStepStep, OwnStep
<1>3. CallerTypes' /\ HelperTypes'
  BY <1>1, CallerStep, HelperStep
<1> QED
  BY <1>2, <1>3, TypeWhole DEF HelperIInv

\* The callers' and the helpers' types; a caller gets the signature of its own
\* message or an error; and between calls no helper process is left but the
\* identity's, and after Close none (load, Sign and Close of identity.go).
THEOREM HelperSound == SESpec => []HelperInv
<1>1. HelperIInv => HelperInv
  <2> SUFFICES ASSUME HelperIInv PROVE OneHelper
    BY DEF HelperIInv, HelperInv
  <2>1. ASSUME mu = Nobody, NEW h \in alive PROVE h = helper
    <3>1. h \in 1..opened /\ h \notin done
      BY DEF HelperIInv, SETypeOK
    <3>2. \A c \in Caller : ~Loading(c)
      BY <2>1, SEAssumption, Zenon DEF HelperIInv, SETypeOK, Loading
    <3> QED
      BY <3>1, <3>2 DEF HelperIInv, Owned
  <2> QED
    BY <2>1 DEF HelperIInv, Owned, OneHelper
<1>2. SEInit => HelperIInv
  BY SEInitInv
<1>3. HelperIInv /\ [SENext]_seVars => HelperIInv'
  BY InvStep
<1> QED
  BY <1>1, <1>2, <1>3, PTL DEF SESpec

\* The identity's key stays, and every helper it signs with has that key: a
\* helper that reports another one after a restart is refused (load,
\* identity.go, 51-56).
THEOREM KeyStays == SESpec => KeyKept
<1>1. SEInit => HelperIInv
  BY SEInitInv
<1>2. HelperIInv /\ [SENext]_seVars => HelperIInv'
  BY InvStep
<1>3. HelperIInv /\ [SENext]_seVars => [SameKey]_seVars
  BY InvStep
<1> QED
  BY <1>1, <1>2, <1>3, PTL DEF SESpec, KeyKept
=============================================================================
