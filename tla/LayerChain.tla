----------------------------- MODULE LayerChain -----------------------------
(***************************************************************************)
(* What PacketParser promises, without saying how it looks bindings up:    *)
(* parsing yields a chain of layers, each one parsed by what the most      *)
(* recently registered binding that has an opinion on its predecessor      *)
(* says, until the input is used up or no binding has one.                 *)
(***************************************************************************)
EXTENDS Integers, Sequences

CONSTANTS
    Types,            \* layer types
    Values,           \* what bindings can tell layers of one type apart by
    None,             \* a binding's answer when it has no opinion
    Rules,            \* bindings: <<type, answer for each value>>
    Parsed(_, _),     \* layers a parser of a type may return from n bytes
    Fails(_, _),      \* errors it may return instead
    InitialRules,     \* binding tables a parser may be created with
    StartTypes,       \* types a parse may begin with
    InputSizes,       \* input lengths
    MaxRules          \* bound on the bindings of one type

VARIABLES
    rules,    \* for each type, its bindings in order of registration
    chain,    \* the layers of the packet
    rest,     \* bytes not parsed
    status    \* "none", "parsing", "ok", "incomplete" or "error"

vars == <<rules, chain, rest, status>>

(* The answer of a table to a layer: that of the last binding with one.    *)
Answering(table, value) == {n \in DOMAIN table : table[n][value] # None}

Verdict(table, value) ==
    IF Answering(table, value) = {} THEN None
    ELSE LET last == CHOOSE n \in Answering(table, value) :
                         \A m \in Answering(table, value) : m <= n
         IN  table[last][value]

Init ==
    /\ rules \in InitialRules
    /\ chain = <<>>
    /\ rest = 0
    /\ status = "none"

Bind ==
    /\ status = "none"
    /\ \E r \in Rules :
           /\ Len(rules[r[1]]) < MaxRules
           /\ rules' = [rules EXCEPT ![r[1]] = Append(@, r[2])]
    /\ UNCHANGED <<chain, rest, status>>

(* The first layer is parsed as the type the caller names.                 *)
Begin ==
    /\ status = "none"
    /\ \E t \in StartTypes, n \in InputSizes :
           \/ \E l \in Parsed(t, n) :
                  chain' = <<l>> /\ rest' = n - l.size /\ status' = "parsing"
           \/ \E e \in Fails(t, n) :
                  chain' = <<>> /\ rest' = n /\ status' = e
    /\ UNCHANGED rules

NextType == Verdict(rules[chain[Len(chain)].type], chain[Len(chain)].value)

Extend ==
    /\ status = "parsing" /\ rest > 0 /\ NextType # None
    /\ \/ \E l \in Parsed(NextType, rest) :
              chain' = Append(chain, l) /\ rest' = rest - l.size /\ UNCHANGED status
       \/ \E e \in Fails(NextType, rest) :
              chain' = <<>> /\ status' = e /\ UNCHANGED rest
    /\ UNCHANGED rules

Finish ==
    /\ status = "parsing" /\ (rest = 0 \/ NextType = None)
    /\ status' = "ok"
    /\ UNCHANGED <<rules, chain, rest>>

Drop ==
    /\ status \notin {"none", "parsing"}
    /\ chain' = <<>> /\ rest' = 0 /\ status' = "none"
    /\ UNCHANGED rules

Next == Bind \/ Begin \/ Extend \/ Finish \/ Drop

(* A parse that was begun comes to an end.                                 *)
Spec == Init /\ [][Next]_vars /\ WF_vars(Extend \/ Finish)
=============================================================================
