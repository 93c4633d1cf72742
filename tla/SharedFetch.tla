----------------------------- MODULE SharedFetch -----------------------------
(***************************************************************************)
(* What a shared lookup promises, without saying how: callers that want    *)
(* the same thing at the same time share one lookup, its result reaches    *)
(* every one of them, and one that gives up disturbs nobody else.          *)
(*                                                                         *)
(* BufferSource implements it with a task, a count of waiters and          *)
(* callbacks.                                                              *)
(***************************************************************************)
CONSTANTS
    Caller,
    Key,       \* what is looked up
    Result,
    Nothing    \* no result yet

VARIABLES
    aboard,  \* the callers that share the lookup of a key, if there is one
    landed,  \* the result that a caller is about to return
    recent   \* the last result of a key while it is at hand

vars == <<aboard, landed, recent>>

Init ==
    /\ aboard = [k \in Key |-> {}]
    /\ landed = [c \in Caller |-> Nothing]
    /\ recent = [k \in Key |-> Nothing]

Away(c) == landed[c] = Nothing /\ \A k \in Key : c \notin aboard[k]

\* A caller starts a lookup or joins the one that is under way.
Board(c, k) ==
    /\ Away(c) /\ recent[k] = Nothing
    /\ aboard' = [aboard EXCEPT ![k] = @ \union {c}]
    /\ UNCHANGED <<landed, recent>>

\* It finds a result that is still at hand.
Hit(c, k) ==
    /\ Away(c) /\ recent[k] # Nothing
    /\ landed' = [landed EXCEPT ![c] = recent[k]]
    /\ UNCHANGED <<aboard, recent>>

\* The lookup ends, for everybody aboard.
Land(k, r) ==
    /\ aboard[k] # {}
    /\ landed' = [c \in Caller |-> IF c \in aboard[k] THEN r ELSE landed[c]]
    /\ aboard' = [aboard EXCEPT ![k] = {}]
    /\ recent' = [recent EXCEPT ![k] = r]

Forget(k) ==
    /\ recent[k] # Nothing
    /\ recent' = [recent EXCEPT ![k] = Nothing]
    /\ UNCHANGED <<aboard, landed>>

\* A caller gives up.
Leave(c) ==
    /\ \E k \in Key : c \in aboard[k]
    /\ aboard' = [k \in Key |-> aboard[k] \ {c}]
    /\ UNCHANGED <<landed, recent>>

\* A caller returns its result, or gives up although it has one.  The last
\* one may clear the result away.
Return(c) ==
    /\ landed[c] # Nothing
    /\ landed' = [landed EXCEPT ![c] = Nothing]
    /\ recent' \in {recent} \union {[recent EXCEPT ![k] = Nothing] : k \in Key}
    /\ UNCHANGED aboard

Next ==
    \/ \E c \in Caller, k \in Key : Board(c, k) \/ Hit(c, k)
    \/ \E k \in Key : Forget(k) \/ \E r \in Result : Land(k, r)
    \/ \E c \in Caller : Leave(c) \/ Return(c)

Spec == Init /\ [][Next]_vars
=============================================================================
