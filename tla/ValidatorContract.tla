--------------------------- MODULE ValidatorContract ---------------------------
(***************************************************************************)
(* What every kanaval validate() promises its caller, with no reads at     *)
(* all.  A validator first opens its own group of the file, outside any    *)
(* try block: when that group is missing the accessor's fault escapes     *)
(* bare.  Once the group is open, the validation comes in one step to     *)
(* exactly one verdict.  Either it accepts, returning a value the          *)
(* validator's Accepts predicate allows, or it rejects with an error whose *)
(* outermost context frame names the phase that failed, with no other     *)
(* phase frame inside it (spec 4.1, 4.4, 7).  A validator with nothing to *)
(* open (combine_embeddings before 2.0) starts already open.               *)
(***************************************************************************)
EXTENDS Naturals, Sequences

CONSTANTS
    Phases,         \* the scopes validate() wraps a fault with
    Accepts(_)      \* the values validate() may return

VARIABLES
    verdict,        \* "unopened", "pending", "accepted" or "rejected"
    result,         \* the value returned, once accepted
    error           \* the scopes of the error's context frames, outermost first

cvars == <<verdict, result, error>>

\* A chain of frames wrapped by exactly one phase, at the outside.
PhaseWrapped(e) ==
    /\ e # <<>>
    /\ Head(e) \in Phases
    /\ \A i \in 2 .. Len(e) : e[i] \notin Phases

Init ==
    /\ verdict \in {"unopened", "pending"}
    /\ error = <<>>

\* The validator's group is there.
Open ==
    /\ verdict = "unopened"
    /\ verdict' = "pending"
    /\ UNCHANGED <<result, error>>

\* The validator's group is missing: the fault is raised with no frame.
Missing ==
    /\ verdict = "unopened"
    /\ verdict' = "rejected"
    /\ error' = <<>>
    /\ UNCHANGED result

Accept ==
    /\ verdict = "pending"
    /\ verdict' = "accepted"
    /\ Accepts(result')
    /\ UNCHANGED error

Reject ==
    /\ verdict = "pending"
    /\ verdict' = "rejected"
    /\ PhaseWrapped(error')
    /\ UNCHANGED result

Next == Open \/ Missing \/ Accept \/ Reject

\* A validation that is not stopped from outside reaches its verdict.
Spec == Init /\ [][Next]_cvars /\ <>(verdict \in {"accepted", "rejected"})

=============================================================================
