---------------------------- MODULE SEIdentity -----------------------------
(***************************************************************************)
(* The Secure Enclave identity of internal/crypto/provider/se: callers     *)
(* that sign, or close the identity, under its mutex; helper processes     *)
(* that answer over a pipe, may fail, answer badly, hang or die, are       *)
(* killed when a caller's context ends, and are replaced on the next use.  *)
(***************************************************************************)
EXTENDS Integers, Sequences

CONSTANTS
    Caller, Nobody,
    Key,          \* public keys a helper may report
    None,         \* no key
    MaxSigns,     \* calls of Sign, a bound of the model
    MaxHelpers    \* helper processes started, a bound of the model

ASSUME SEAssumption ==
    /\ Nobody \notin Caller /\ None \notin Key /\ Key # {}
    /\ MaxSigns \in Nat /\ MaxHelpers \in Nat \ {0}

VARIABLES
    mu,        \* Identity.mu: its holder, or Nobody
    call, ctx, \* each caller, and its context
    mine,      \* the number of a caller's request
    result,    \* what its last call returned: a request's number, or an error
    helper,    \* Identity.helper, or NoHelper
    public,    \* Identity.public
    closed,    \* Identity.closed
    signs,     \* requests numbered so far
    opened,    \* helpers started so far
    alive,     \* helper processes that run
    done,      \* helpers whose Done channel is closed: exited and reaped
    key,       \* the public key a helper reports
    inbox,     \* the request a helper has yet to answer
    pipe       \* its answers in the pipe

seVars == <<mu, call, ctx, mine, result, helper, public, closed, signs, opened, alive, done,
            key, inbox, pipe>>
procVars == <<opened, alive, done, key, inbox, pipe>>
identityVars == <<helper, public, closed>>

NoHelper == 0
Helpers == 1..MaxHelpers

\* Numbers of requests: Sign's from 1 on, and those of load.
Load == 0
PublicKey == -1
Garbage == -2   \* the rest of an answer that was not read to its end
Error == -3
Nothing == -4

Waits == {"loading", "asking", "signing"}
Entries == {"load", "ask", "sign"}
Answer == [of : -2..MaxSigns, status : {"ok", "error", "bad"}]

\* Only the holder of the mutex is past Lock.
SETypeOK ==
    /\ mu \in Caller \cup {Nobody}
    /\ call \in [Caller -> Waits \cup Entries \cup {"idle", "lock", "lockClose", "ready"}]
    /\ \A c \in Caller : mu = c <=> call[c] \notin {"idle", "lock", "lockClose"}
    /\ ctx \in [Caller -> {"live", "done", "killed"}]
    /\ mine \in [Caller -> 0..MaxSigns] /\ result \in [Caller -> -4..MaxSigns]
    /\ helper \in 0..opened /\ public \in Key /\ closed \in BOOLEAN
    /\ signs \in 0..MaxSigns /\ opened \in Helpers
    /\ alive \subseteq 1..opened /\ done \subseteq 1..opened /\ alive \cap done = {}
    /\ key \in [Helpers -> Key \cup {None}] /\ inbox \in [Helpers -> -4..MaxSigns]
    /\ \A h \in Helpers : pipe[h] \in Seq(Answer) /\ Len(pipe[h]) <= 2

\* After openIdentity: one helper, loaded.
SEInit ==
    /\ mu = Nobody /\ call = [c \in Caller |-> "idle"] /\ ctx = [c \in Caller |-> "live"]
    /\ mine = [c \in Caller |-> 0] /\ result = [c \in Caller |-> Nothing]
    /\ public \in Key /\ helper = 1 /\ closed = FALSE /\ signs = 0
    /\ opened = 1 /\ alive = {1} /\ done = {}
    /\ key = [h \in Helpers |-> IF h = 1 THEN public ELSE None]
    /\ inbox = [h \in Helpers |-> Nothing] /\ pipe = [h \in Helpers |-> <<>>]

-----------------------------------------------------------------------------
Enter(c, place) == call' = [call EXCEPT ![c] = place]

\* Unlock and return r.
Return(c, r) ==
    /\ Enter(c, "idle") /\ mu' = Nobody /\ result' = [result EXCEPT ![c] = r]
    /\ UNCHANGED <<ctx, mine, signs>>

\* Helper.Close kills the process and waits until it is reaped.
HelperClose(h) ==
    /\ alive' = alive \ {h} /\ done' = done \cup {h}
    /\ UNCHANGED <<opened, key, inbox, pipe>>

Sign(c) ==
    /\ call[c] = "idle" /\ signs < MaxSigns
    /\ signs' = signs + 1 /\ mine' = [mine EXCEPT ![c] = signs + 1]
    /\ result' = [result EXCEPT ![c] = Nothing] /\ ctx' = [ctx EXCEPT ![c] = "live"]
    /\ Enter(c, "lock")
    /\ UNCHANGED <<mu, identityVars, procVars>>

Close(c) ==
    /\ call[c] = "idle" /\ ~closed
    /\ Enter(c, "lockClose") /\ result' = [result EXCEPT ![c] = Nothing]
    /\ UNCHANGED <<mu, ctx, mine, signs, identityVars, procVars>>

\* The caller's context ends, by its deadline at the latest.
Cancel(c) ==
    /\ ctx[c] = "live" /\ call[c] # "idle"
    /\ ctx' = [ctx EXCEPT ![c] = "done"]
    /\ UNCHANGED <<mu, call, mine, result, signs, identityVars, procVars>>

Lock(c) ==
    /\ call[c] = "lock" /\ mu = Nobody
    /\ mu' = c /\ Enter(c, "ready")
    /\ UNCHANGED <<ctx, mine, result, signs, identityVars, procVars>>

Closed(c) ==
    /\ call[c] = "lockClose" /\ mu = Nobody
    /\ closed' = TRUE /\ helper' = NoHelper
    /\ IF helper = NoHelper THEN UNCHANGED procVars ELSE HelperClose(helper)
    /\ Enter(c, "idle")
    /\ UNCHANGED <<mu, ctx, mine, result, signs, public>>

Refused(c) ==
    /\ call[c] = "ready" /\ (closed \/ ctx[c] # "live")
    /\ Return(c, Error) /\ UNCHANGED <<identityVars, procVars>>

Usable(c) == call[c] = "ready" /\ ~closed /\ ctx[c] = "live"

Reuse(c) ==
    /\ Usable(c) /\ helper # NoHelper /\ helper \notin done
    /\ Enter(c, "sign")
    /\ UNCHANGED <<mu, ctx, mine, result, signs, identityVars, procVars>>

\* A helper known to have exited is dropped, and another one started.
Open(c) ==
    /\ Usable(c) /\ (helper = NoHelper \/ helper \in done) /\ opened < MaxHelpers
    /\ opened' = opened + 1 /\ alive' = alive \cup {opened + 1} /\ helper' = NoHelper
    /\ \E k \in Key : key' = [key EXCEPT ![opened + 1] = k]
    /\ Enter(c, "load")
    /\ UNCHANGED <<mu, ctx, mine, result, signs, public, closed, done, inbox, pipe>>

OpenFailed(c) ==
    /\ Usable(c) /\ (helper = NoHelper \/ helper \in done)
    /\ helper' = NoHelper /\ Return(c, Error)
    /\ UNCHANGED <<public, closed, procVars>>

-----------------------------------------------------------------------------
(***************************************************************************)
(* Helper.call.  The context's end kills the process, and the call does    *)
(* not return before it has.  Reading fails once the process is gone and   *)
(* the pipe empty, and as soon as it is reaped: Wait closes the pipe.      *)
(***************************************************************************)
\* load uses the helper it has just started, Sign the identity's.
Using(c) == IF call[c] \in {"load", "loading", "ask", "asking"} THEN opened ELSE helper

Write(c, from, to, request) ==
    /\ call[c] = from /\ ctx[c] = "live" /\ Using(c) \in alive
    /\ inbox' = [inbox EXCEPT ![Using(c)] = request]
    /\ Enter(c, to)
    /\ UNCHANGED <<mu, ctx, mine, result, signs, identityVars, opened, alive, done, key, pipe>>

BugKill(c) ==
    /\ call[c] \in Waits /\ ctx[c] = "done"
    /\ ctx' = [ctx EXCEPT ![c] = "killed"]
    /\ UNCHANGED <<mu, call, mine, result, signs, identityVars, procVars>>

Kill(c) ==
    /\ call[c] \in Waits /\ ctx[c] = "done"
    /\ ctx' = [ctx EXCEPT ![c] = "killed"] /\ alive' = alive \ {Using(c)}
    /\ UNCHANGED <<mu, call, mine, result, signs, identityVars, opened, done, key, inbox, pipe>>

Readable(h) == h \notin done /\ pipe[h] # <<>>

Answered(c, place) ==
    /\ call[c] = place /\ ctx[c] # "done"
    /\ Readable(Using(c)) /\ Head(pipe[Using(c)]).status = "ok"

\* The answer is taken from the pipe.
Taken(h) == pipe' = [pipe EXCEPT ![h] = Tail(@)] /\ UNCHANGED <<opened, alive, done, key, inbox>>

Loaded(c) ==
    /\ Answered(c, "loading") /\ Taken(Using(c))
    /\ Enter(c, "ask")
    /\ UNCHANGED <<mu, ctx, mine, result, signs, identityVars>>

BugPublic(c) ==
    /\ Answered(c, "asking")
    /\ public' = key[opened] /\ helper' = opened /\ Enter(c, "sign") /\ Taken(opened)
    /\ UNCHANGED <<closed, mu, ctx, mine, result, signs>>

\* The reloaded helper must have the identity's key.
Public(c) ==
    /\ Answered(c, "asking") /\ key[opened] = public
    /\ helper' = opened /\ Enter(c, "sign") /\ Taken(opened)
    /\ UNCHANGED <<public, closed, mu, ctx, mine, result, signs>>

KeyChanged(c) ==
    /\ Answered(c, "asking") /\ key[opened] # public
    /\ HelperClose(opened) /\ Return(c, Error)
    /\ UNCHANGED identityVars

Signed(c) ==
    /\ Answered(c, "signing") /\ Taken(helper)
    /\ Return(c, Head(pipe[helper]).of)
    /\ UNCHANGED identityVars

CallFails(c) ==
    \/ call[c] \in Entries /\ (ctx[c] # "live" \/ Using(c) \notin alive)
    \/ /\ call[c] \in Waits /\ ctx[c] # "done"
       /\ IF Readable(Using(c)) THEN Head(pipe[Using(c)]).status # "ok"
          ELSE Using(c) \notin alive

\* A bad size leaves the rest of the answer in the pipe.
Rest(h) ==
    IF ~Readable(h) THEN pipe[h]
    ELSE IF Head(pipe[h]).status = "bad" THEN <<[of |-> Garbage, status |-> "ok"]>> \o Tail(pipe[h])
    ELSE Tail(pipe[h])

BugFailed(c) ==
    /\ CallFails(c)
    /\ pipe' = [pipe EXCEPT ![Using(c)] = IF call[c] \in Waits THEN Rest(Using(c)) ELSE @]
    /\ Return(c, Error)
    /\ UNCHANGED <<identityVars, opened, alive, done, key, inbox>>

\* "Never reuse a possibly desynchronized pipe": the helper is closed.
Failed(c) ==
    /\ CallFails(c)
    /\ alive' = alive \ {Using(c)} /\ done' = done \cup {Using(c)} /\ helper' = NoHelper
    /\ pipe' = [pipe EXCEPT ![Using(c)] = IF call[c] \in Waits THEN Rest(Using(c)) ELSE @]
    /\ Return(c, Error)
    /\ UNCHANGED <<public, closed, opened, key, inbox>>

-----------------------------------------------------------------------------
(***************************************************************************)
(* The helper process: it answers requests in order, and may die.          *)
(***************************************************************************)
Reply(h) ==
    /\ h \in alive /\ inbox[h] # Nothing
    /\ \E s \in {"ok", "error", "bad"} :
         pipe' = [pipe EXCEPT ![h] = Append(@, [of |-> inbox[h], status |-> s])]
    /\ inbox' = [inbox EXCEPT ![h] = Nothing]
    /\ UNCHANGED <<mu, call, ctx, mine, result, signs, identityVars, opened, alive, done, key>>

Die(h) ==
    /\ h \in alive /\ alive' = alive \ {h}
    /\ UNCHANGED <<mu, call, ctx, mine, result, signs, identityVars, opened, done, key, inbox, pipe>>

\* cmd.Wait returns: Done is closed.
Reap(h) ==
    /\ h \in 1..opened /\ h \notin alive \cup done
    /\ done' = done \cup {h}
    /\ UNCHANGED <<mu, call, ctx, mine, result, signs, identityVars, opened, alive, key, inbox, pipe>>

Step(c) ==
    \/ Lock(c) \/ Closed(c) \/ Refused(c) \/ Reuse(c) \/ Open(c) \/ OpenFailed(c)
    \/ Write(c, "load", "loading", Load) \/ Write(c, "ask", "asking", PublicKey)
    \/ Write(c, "sign", "signing", mine[c])
    \/ Kill(c) \/ Loaded(c) \/ Public(c) \/ KeyChanged(c) \/ Signed(c) \/ Failed(c)

SENext ==
    \/ \E c \in Caller : Sign(c) \/ Close(c) \/ Cancel(c) \/ Step(c)
    \/ \E h \in Helpers : Reply(h) \/ Die(h) \/ Reap(h)

SESpec == SEInit /\ [][SENext]_seVars

\* A helper may hang, but every call has a deadline; Go's mutexes let
\* every waiter in.
FairSpec ==
    /\ SESpec
    /\ \A c \in Caller : WF_seVars(Step(c)) /\ SF_seVars(Lock(c)) /\ SF_seVars(Closed(c)) /\ WF_seVars(Cancel(c))

-----------------------------------------------------------------------------
\* Sign returns the signature of its own message: an answer to another
\* request, or the rest of one, is never taken for it (identity.go, 94-101).
OwnSignature == \A c \in Caller : result[c] \in {Nothing, Error, mine[c]}

\* Between calls the only helper process left is the identity's, and after
\* Close there is none (load, Sign and Close of identity.go).
OneHelper ==
    mu = Nobody => /\ alive \subseteq {helper}
                   /\ closed => helper = NoHelper

\* The state invariant of the identity and its helpers.
HelperInv == SETypeOK /\ OneHelper /\ OwnSignature

\* The key that the identity announced stays its key, and every helper it
\* signs with has that key (load, identity.go, 51-56).
SameKey == public' = public /\ (helper' # NoHelper => key'[helper'] = public)
KeyKept == [][SameKey]_seVars

\* No caller waits for ever, whatever the helper does: the context's end
\* kills the helper, and with it the read (call, se.go, 111).
CallsReturn == \A c \in Caller : call[c] # "idle" ~> call[c] = "idle"

-----------------------------------------------------------------------------
(***************************************************************************)
(* Why HelperInv and KeyKept hold (IdentityProofs).                        *)
(***************************************************************************)
Loading(c) == call[c] \in {"load", "loading", "ask", "asking"}

\* Every helper that was started is closed, or the identity's, or the one that
\* is being loaded; and the identity's has its key.
Owned ==
    /\ \A h \in 1..opened : h \in done \/ h = helper \/ (h = opened /\ \E c \in Caller : Loading(c))
    /\ \A c \in Caller : Loading(c) => helper = NoHelper
    /\ \A c \in Caller : call[c] \in {"sign", "signing"} => helper # NoHelper
    /\ closed => helper = NoHelper /\ \A c \in Caller : call[c] \in {"idle", "lock", "lockClose", "ready"}
    /\ helper # NoHelper => key[helper] = public

\* A helper that is not closed has one request at most, of the caller that
\* waits for it, in its inbox or answered in the pipe; others have nothing.
Asked(c) == CASE call[c] = "loading" -> Load [] call[c] = "asking" -> PublicKey [] OTHER -> mine[c]
Waiting(c, h) == call[c] \in Waits /\ Using(c) = h
Quiet(h) == inbox[h] = Nothing /\ pipe[h] = <<>> /\ \A c \in Caller : ~Waiting(c, h)
Pending(c, h) ==
    /\ Waiting(c, h)
    /\ \/ inbox[h] = Asked(c) /\ pipe[h] = <<>>
       \/ inbox[h] = Nothing /\ Len(pipe[h]) = 1 /\ Head(pipe[h]).of = Asked(c)
InStep == \A h \in Helpers \ done : Quiet(h) \/ \E c \in Caller : Pending(c, h)

Pipes == pipe \in [Helpers -> Seq(Answer)] /\ \A h \in Helpers : Len(pipe[h]) <= 1

\* The inductive invariant.
HelperIInv == SETypeOK /\ Pipes /\ Owned /\ InStep /\ OwnSignature
=============================================================================
