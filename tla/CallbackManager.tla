--------------------------- MODULE CallbackManager ---------------------------
(***************************************************************************)
(* callback.CallbackManager as operators on its stack: a function from the *)
(* (prefix, key) pairs that have callbacks to their lists of callback      *)
(* dicts.  name_or_value makes prefixes and keys comparable; here they are.*)
(***************************************************************************)
EXTENDS Naturals, Sequences, SequencesExt

CONSTANT None   \* no arguments, any caller

\* _callback_dict; calls counts the registered uses of a one-shot callback.
CallbackDict(callback, oneShot, only, arguments) ==
    [callback |-> callback, oneShot |-> oneShot, only |-> only, arguments |-> arguments,
     calls |-> IF oneShot THEN 1 ELSE 0]

EmptyStack == [k \in {} |-> <<>>]
EntriesAt(stack, key) == IF key \in DOMAIN stack THEN stack[key] ELSE <<>>

\* An empty list leaves the stack, as by _cleanup_callback_dict.
PutEntries(stack, key, entries) ==
    IF entries = <<>> THEN [k \in DOMAIN stack \ {key} |-> stack[k]]
    ELSE [k \in DOMAIN stack \cup {key} |-> IF k = key THEN entries ELSE stack[k]]

SameCallback(d, e) ==
    d.callback = e.callback /\ d.arguments = e.arguments /\ d.only = e.only

\* add: a one-shot callback that is there already gets one more use.
AddEntry(stack, key, e) ==
    LET entries == EntriesAt(stack, key) IN
    IF \E d \in ToSet(entries) : SameCallback(d, e)
    THEN [stack EXCEPT ![key] = [i \in DOMAIN entries |->
              IF SameCallback(entries[i], e) /\ entries[i].oneShot
              THEN [entries[i] EXCEPT !.calls = @ + 1] ELSE entries[i]]]
    ELSE PutEntries(stack, key, Append(entries, e))

\* pending, which decides whether a method frame is the callbacks' or the channel's.
Pending(stack, key) == Len(EntriesAt(stack, key))

\* _arguments_match: none expected, or the frame has them.
ArgumentsMatch(d, arguments) == d.arguments = None \/ d.arguments = arguments

\* Mutant: the emptied list stays.
RemoveAndKeepKey(stack, key, callback, arguments) ==
    IF key \notin DOMAIN stack THEN stack
    ELSE [stack EXCEPT ![key] = SelectSeq(@,
              LAMBDA d : ~(d.callback = callback /\ ArgumentsMatch(d, arguments)))]

\* remove, of a callback.
RemoveEntry(stack, key, callback, arguments) ==
    PutEntries(stack, key, SelectSeq(EntriesAt(stack, key),
        LAMBDA d : ~(d.callback = callback /\ ArgumentsMatch(d, arguments))))

\* _should_process_callback.
ShouldProcess(d, caller, arguments) ==
    ArgumentsMatch(d, arguments) /\ d.only \in {None, caller}

\* Mutant: the first use is the last one.
UseOneShotOnce(stack, key, e) == RemoveEntry(stack, key, e.callback, e.arguments)

\* _use_one_shot_callback.
UseOneShot(stack, key, e) ==
    IF e.calls <= 1 THEN RemoveEntry(stack, key, e.callback, e.arguments)
    ELSE PutEntries(stack, key, [i \in DOMAIN EntriesAt(stack, key) |->
             LET d == EntriesAt(stack, key)[i] IN
             IF SameCallback(d, e) THEN [d EXCEPT !.calls = @ - 1] ELSE d])

\* process: all uses are counted before the first callback is called, so that what
\* a callback adds or removes is of no account for the same event.
ProcessEntries(stack, key, caller, arguments) ==
    LET step(acc, e) ==
            IF ~ShouldProcess(e, caller, arguments) THEN acc
            ELSE [stack |-> IF e.oneShot THEN UseOneShot(acc.stack, key, e) ELSE acc.stack,
                  called |-> Append(acc.called, e)]
    IN FoldLeft(step, [stack |-> stack, called |-> <<>>], EntriesAt(stack, key))
=============================================================================
