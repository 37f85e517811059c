------------------------------ MODULE Pipeline ------------------------------
(***************************************************************************)
(* One pipeline of linear senders (src/pump/sender/{just,then,flat,maybe,  *)
(* visit,when_skipped,any_exception,push_context,pop_context,get_context,  *)
(* submit,null_receiver}.hh) run by the op pushers                         *)
(* (src/pump/core/{op_pusher,scope,context}.hh).  A signal (value,         *)
(* exception or skip) is pushed from op to op by nested calls.  flat,      *)
(* when_skipped and any_exception run an inner sender, just() >> then(..)  *)
(* or one that a scheduler resumes, in a scope of its own; its last op     *)
(* frees that scope and goes on at pos + 1 of the base scope.  What is     *)
(* remembered besides the signal is which try blocks the calls are in:     *)
(* then's encloses everything downstream of it.                            *)
(***************************************************************************)
EXTENDS Integers, Sequences, FiniteSets, SequencesExt

CONSTANTS Lines,        \* the pipelines: sequences of ops
          Uncaught      \* <<line, op>>: its function may throw uncaught

Simple == {"then", "visit", "get_context"}
Scoped == {"flat", "when_skipped", "any_exception"}
LinearOps == Simple \cup Scoped \cup {"maybe", "push_context", "pop_context"}

(* compute_matching_context_compile_id: pop_context is for the push_context*)
(* that it nests with.                                                     *)
Pushes(l) == {i \in DOMAIN l : l[i] = "push_context"}
Pops(l)   == {i \in DOMAIN l : l[i] = "pop_context"}
Nests(l, m) ==
    /\ \A q \in Pushes(l) : \E p \in Pops(l) : m[p] = q
    /\ \A p \in Pops(l) : m[p] < p
    /\ \A p, r \in Pops(l) : /\ m[p] = m[r] => p = r
                             /\ m[p] < m[r] /\ m[r] < p => r < p
Matching(l) == CHOOSE m \in [Pops(l) -> Pushes(l)] : Nests(l, m)

(* Contexts are pushed and popped in pairs, as with_context does.          *)
ASSUME LinesNest ==
    \A l \in Lines : /\ l \in Seq(LinearOps)
                     /\ \E m \in [Pops(l) -> Pushes(l)] : Nests(l, m)

(* The then at q, and no op between, surrounds the function at p; and a    *)
(* skip comes from behind q.                                               *)
Guards(l, q, p) ==
    /\ q < p /\ l[q] = "then"
    /\ \A r \in 1 .. q - 1 : l[r] \in Simple \cup {"push_context", "pop_context"}
    /\ \A r \in q + 1 .. p - 1 : l[r] \in Simple \cup {"maybe"}

(* A function may throw uncaught only behind such a then.  (Elsewhere the  *)
(* stack may unwind to a try block whose scope has been freed, or to none.)*)
ASSUME UncaughtIsGuarded ==
    \A l \in Lines, op \in LinearOps : <<l, op>> \in Uncaught =>
       /\ op = "when_skipped"
       /\ \A p \in DOMAIN l : l[p] = op => \E q \in 1 .. p - 1 : Guards(l, q, p)

VARIABLES line,         \* the pipeline that was submitted
          at,           \* position of the next push
          signal,       \* "value", "exception", "skip" or "none" (returned)
          inside,       \* the signal is in the inner sender of op `at'
          handed,       \* the inner sender waits for a scheduler
          tries,        \* the try blocks of the call stack, outermost first
          scopes,       \* the live scopes: 0 (root) and positions
          contexts,     \* positions of the push_context whose context lives
          context,      \* those the signal carries, each on its base_context
          received,     \* what the receiver got
          misused       \* a freed scope or context was used

lvars == <<line, at, signal, inside, handed, tries, scopes, contexts, context,
           received, misused>>

PipelineInit ==
    /\ line \in Lines
    /\ at = 1 /\ signal = "value" /\ inside = FALSE /\ handed = FALSE
    /\ tries = <<>>
    /\ scopes = {0} /\ contexts = {} /\ context = <<>>
    /\ received = <<>>
    /\ misused = FALSE

Op == line[at]
Arrives(ops, kinds) ==
    /\ at <= Len(line) /\ ~inside /\ ~handed
    /\ Op \in ops /\ signal \in kinds

(* The push of the op's own outcome to pos + 1.                            *)
Forward(kind) == at' = at + 1 /\ signal' = kind

Living(chain) == \A i \in DOMAIN chain : chain[i] \in contexts

Try(sc, catches) ==
    [at |-> at, scope |-> sc, context |-> context, catches |-> catches]

-----------------------------------------------------------------------------
(* MUTANT ops that pass on an exception and drop a skip.                   *)
PassOnExceptions ==
    /\ \/ Arrives({"then", "flat", "maybe", "visit"}, {"exception"})
       \/ Arrives({"push_context", "get_context"}, {"exception"})
       \/ Arrives({"when_skipped"}, {"value", "exception"})
       \/ Arrives({"any_exception"}, {"value", "skip"})
    /\ Forward(signal)
    /\ UNCHANGED <<line, inside, handed, tries, scopes, contexts, context,
                   received, misused>>

(* The base pusher: ops pass on what they do not handle.                   *)
PassOn ==
    /\ \/ Arrives({"then", "flat", "maybe", "visit"}, {"exception", "skip"})
       \/ Arrives({"push_context", "get_context"}, {"exception", "skip"})
       \/ Arrives({"when_skipped"}, {"value", "exception"})
       \/ Arrives({"any_exception"}, {"value", "skip"})
    /\ Forward(signal)
    /\ UNCHANGED <<line, inside, handed, tries, scopes, contexts, context,
                   received, misused>>

(* then: the function, and the push of its result in the same try block.   *)
Then ==
    /\ Arrives({"then"}, {"value"})
    /\ \/ /\ Forward("value")
          /\ tries' = Append(tries, Try(0, {"std", "other"}))
       \/ Forward("exception") /\ UNCHANGED tries
    /\ UNCHANGED <<line, inside, handed, scopes, contexts, context, received,
                   misused>>

(* visit: one of the alternatives goes on.                                 *)
Visit ==
    /\ Arrives({"visit"}, {"value"})
    /\ Forward("value")
    /\ UNCHANGED <<line, inside, handed, tries, scopes, contexts, context,
                   received, misused>>

(* get_context: the data of the context the signal carries join the value. *)
GetContext ==
    /\ Arrives({"get_context"}, {"value"})
    /\ Forward("value")
    /\ misused' = (misused \/ ~Living(context))
    /\ UNCHANGED <<line, inside, handed, tries, scopes, contexts, context,
                   received>>

(* maybe: an empty optional is a skip.                                     *)
Maybe ==
    /\ Arrives({"maybe"}, {"value"})
    /\ \E kind \in {"value", "skip"} : Forward(kind)
    /\ UNCHANGED <<line, inside, handed, tries, scopes, contexts, context,
                   received, misused>>

PushContext ==
    /\ Arrives({"push_context"}, {"value"})
    /\ contexts' = contexts \cup {at}
    /\ context' = Append(context, at)
    /\ Forward("value")
    /\ UNCHANGED <<line, inside, handed, tries, scopes, received, misused>>

(* MUTANT a pop_context that frees the context with a value only.          *)
PopContextOfValues ==
    /\ Arrives({"pop_context"}, {"value", "exception", "skip"})
    /\ IF Matching(line)[at] \in Range(context) /\ signal = "value"
       THEN /\ contexts' = contexts \ {Last(context)}
            /\ context' = Front(context)
            /\ misused' = (misused \/ Last(context) \notin contexts)
       ELSE UNCHANGED <<contexts, context, misused>>
    /\ Forward(signal)
    /\ UNCHANGED <<line, inside, handed, tries, scopes, received>>

(* pop_context: whatever the signal, if it carries the pushed context, that*)
(* is freed.  (An exception from before push_context carries the base.)    *)
PopContext ==
    /\ Arrives({"pop_context"}, {"value", "exception", "skip"})
    /\ IF Matching(line)[at] \in Range(context)
       THEN /\ contexts' = contexts \ {Last(context)}
            /\ context' = Front(context)
            /\ misused' = (misused \/ Last(context) \notin contexts)
       ELSE UNCHANGED <<contexts, context, misused>>
    /\ Forward(signal)
    /\ UNCHANGED <<line, inside, handed, tries, scopes, received>>

(* flat, when_skipped and any_exception make the scope of an inner sender. *)
(* any_exception does so in a try block.                                   *)
Enter ==
    /\ \/ Arrives({"flat"}, {"value"})
       \/ Arrives({"when_skipped"}, {"skip"})
       \/ Arrives({"any_exception"}, {"exception"})
    /\ inside' = TRUE
    /\ scopes' = scopes \cup {at}
    /\ tries' = IF Op = "any_exception" THEN Append(tries, Try(0, {"std"}))
                                        ELSE tries
    /\ signal' = "value"
    /\ UNCHANGED <<line, at, handed, contexts, context, received, misused>>

(* MUTANT a pop_pusher that frees the scope with a value only.             *)
PopPusherOfValues(kind) ==
    /\ scopes' = IF kind = "value" THEN scopes \ {at} ELSE scopes
    /\ inside' = FALSE
    /\ Forward(kind)
    /\ misused' = (misused \/ ~({0, at} \subseteq scopes))

(* pop_pusher_scope_op, the inner sender's last: back to the base scope.   *)
PopPusher(kind) ==
    /\ scopes' = scopes \ {at}
    /\ inside' = FALSE
    /\ Forward(kind)
    /\ misused' = (misused \/ ~({0, at} \subseteq scopes))

(* The inner sender answers within the call, from the try block of a then. *)
InnerAnswers ==
    /\ inside /\ ~handed
    /\ \/ /\ PopPusher("value")
          /\ tries' = Append(tries, Try(at, {"std", "other"}))
       \/ \E kind \in {"exception", "skip"} :
             PopPusher(kind) /\ UNCHANGED tries
    /\ UNCHANGED <<line, handed, contexts, context, received>>

(* ... or a scheduler takes it, and the calls return; ...                  *)
HandOver ==
    /\ inside /\ ~handed
    /\ handed' = TRUE
    /\ tries' = <<>>
    /\ UNCHANGED <<line, at, signal, inside, scopes, contexts, context,
                   received, misused>>

(* ... and its callback pushes from a new call stack.                      *)
Resume ==
    /\ handed
    /\ handed' = FALSE
    /\ \E kind \in {"value", "exception"} : PopPusher(kind)
    /\ UNCHANGED <<line, tries, contexts, context, received>>

(* MUTANT a then that catches std::exception only, as any_exception does.  *)
StdTries(kind) == {i \in DOMAIN tries : "std" \in tries[i].catches
                                            /\ kind = "std"}

(* The innermost try block that takes the exception.                       *)
Catching(kind) == {i \in DOMAIN tries : kind \in tries[i].catches}
Innermost(is) == CHOOSE i \in is : \A j \in is : j <= i

(* A function that no try block of its own op guards throws: when_skipped's*)
(* or, if it is no std::exception, any_exception's.  The stack unwinds to  *)
(* the innermost block that takes it, which pushes the exception from its  *)
(* own op on, through a scope and a context that may have been freed since.*)
Escapes ==
    /\ \/ Arrives({"when_skipped"}, {"skip"})
       \/ Arrives({"any_exception"}, {"exception"})
    /\ <<line, Op>> \in Uncaught
    /\ IF Catching("other") = {}
       THEN signal' = "none" /\ UNCHANGED <<at, tries, context, misused>>
       ELSE LET t == tries[Innermost(Catching("other"))] IN
            /\ at' = t.at + 1 /\ signal' = "exception"
            /\ context' = t.context
            /\ tries' = SubSeq(tries, 1, Innermost(Catching("other")) - 1)
            /\ misused' = (misused \/ t.scope \notin scopes
                              \/ ~Living(t.context))
    /\ UNCHANGED <<line, inside, handed, scopes, contexts, received>>

(* any_exception: the function throws a std::exception, pushed on.         *)
Rethrow ==
    /\ Arrives({"any_exception"}, {"exception"})
    /\ Forward("exception")
    /\ UNCHANGED <<line, inside, handed, tries, scopes, contexts, context,
                   received, misused>>

(* null_receiver: the root scope is deleted and the calls return.          *)
Receive ==
    /\ at = Len(line) + 1 /\ ~handed /\ signal # "none"
    /\ received' = Append(received, signal)
    /\ scopes' = scopes \ {0}
    /\ signal' = "none" /\ tries' = <<>>
    /\ misused' = (misused \/ 0 \notin scopes)
    /\ UNCHANGED <<line, at, inside, handed, contexts, context>>

PipelineNext == PassOn \/ Then \/ Visit \/ Maybe \/ PushContext \/ GetContext
                \/ PopContext \/ Enter \/ InnerAnswers \/ HandOver \/ Resume
                \/ Escapes \/ Rethrow \/ Receive

PipelineSpec == PipelineInit /\ [][PipelineNext]_lvars

-----------------------------------------------------------------------------
(* Whatever the functions do and however often a scheduler comes between,  *)
(* the receiver gets one signal, all inner scopes and pushed contexts have *)
(* been freed by then, and none was used after it was freed (pop_context,  *)
(* pop_pusher_scope_op, the catch block of then).                          *)
SignalledOnce ==
    /\ ~misused
    /\ IF signal # "none" THEN received = <<>>
       ELSE Len(received) = 1 /\ scopes = {} /\ contexts = {}

(* Nobody takes the signal: the inner sender is done, and neither the      *)
(* receiver nor the op it comes to has a push for it.                      *)
CallsOver ==
    /\ ~inside /\ ~handed
    /\ at = Len(line) + 1 => signal = "none"
    /\ ~Arrives({"then", "flat", "maybe", "visit"}, {"value", "exception", "skip"})
    /\ ~Arrives({"push_context", "get_context"}, {"value", "exception", "skip"})
    /\ ~Arrives({"when_skipped"}, {"value", "exception", "skip"})
    /\ ~Arrives({"any_exception", "pop_context"}, {"value", "exception", "skip"})

(* The calls do not end before the receiver was called: every op passes on *)
(* every signal that can come to it.                                       *)
ReceiverCalled == CallsOver => signal = "none" /\ received # <<>>
SignalArrives == ReceiverCalled /\ (~ENABLED PipelineNext => CallsOver)
=============================================================================
