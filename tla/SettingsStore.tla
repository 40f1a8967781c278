---------------------------- MODULE SettingsStore ----------------------------
(***************************************************************************)
(* What the settings promise their callers: one store shared by every CLI  *)
(* process, in which each call takes effect at one moment, or fails and    *)
(* has none.  The interface of                                             *)
(* lib/common/services/json-file-settings-service.ts.                      *)
(***************************************************************************)
CONSTANTS
    Calls,      \* calls of the service, by any process
    Request,    \* what each call asks for: [op, key, value]
    Keys,
    NoValue,    \* the value of a key that is not set
    MayFail     \* calls that may fail

VARIABLES
    store,      \* the value of each key
    ended,      \* the CLI processes that have ended
    answer      \* "pending", "saved", "failed", or "got" and the value

Empty == [k \in Keys |-> NoValue]

Init ==
    /\ store = Empty
    /\ answer = [c \in Calls |-> <<"pending">>]
    /\ ended = {}

Answer(c, a) ==
    /\ answer[c] = <<"pending">>
    /\ answer' = [answer EXCEPT ![c] = a]
    /\ UNCHANGED ended

Save(c) ==
    /\ Request[c].op = "save"
    /\ Answer(c, <<"saved">>)
    /\ store' = [store EXCEPT ![Request[c].key] = Request[c].value]

Get(c) ==
    /\ Request[c].op = "get"
    /\ Answer(c, <<"got", store[Request[c].key]>>)
    /\ UNCHANGED store

Fail(c) ==
    /\ c \in MayFail
    /\ Answer(c, <<"failed">>)
    /\ UNCHANGED store

(* A process ends, and if it is killed in the middle of a write, so does   *)
(* what the file held.                                                     *)
Ends ==
    /\ ended' # ended /\ ended \subseteq ended'
    /\ store' \in {store, Empty}
    /\ UNCHANGED answer

Next == Ends \/ \E c \in Calls : Save(c) \/ Get(c) \/ Fail(c)

=============================================================================
