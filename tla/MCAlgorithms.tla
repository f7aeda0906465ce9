------------------------------ MODULE MCAlgorithms ------------------------------
(* Small inputs for the pure algorithms.                                   *)
EXTENDS Algorithms, TLC

CONSTANTS n1, n2, n3, hex, owner, word

\* The budgets of a chunk: unset, below the floor, the bounds and between.
SomeSettings == {None, 0, 10, 11, 40}

Entries == [node : {n1, n2}, form : {"hex", "decimal"}, info : {"keyed", "keyless", "malformed"}]
WithKey(n, f) == [node |-> n, form |-> f, info |-> "keyed"]
SomeDatabases ==
  {<< >>} \cup {<<e>> : e \in Entries}
    \cup {<<WithKey(n1, "hex"), WithKey(n2, "hex")>>, <<WithKey(n2, "hex"), WithKey(n1, "hex")>>,
          <<WithKey(n2, "hex"), WithKey(n1, "decimal")>>,
          <<WithKey(n1, "decimal"), WithKey(n2, "hex")>>}
\* The number of n1, in digits, reads as the id of n2.
OneReads == n1 :> n2 @@ n2 :> None
TwoRecipients == [node : {n1, n2}, form : {"hex", "decimal"}]

Channels == [index : {0, 1, None}, name : {"a", "b"}]
SomeTables == {None} \cup Seqs(Channels, 2)
SomeSpecs == [index : {0, 1, 2}, name : {None}] \cup [index : {None}, name : {"a", "b", "c"}]

Sources == [node : {n1, n2, n3}, rx : {None, 1, 9}, now : {0}]
Signals == {[hops |-> None, signal |-> 1], [hops |-> 1, signal |-> 2], [hops |-> 0, signal |-> 3],
            [hops |-> 0, signal |-> None]}
SomePackets == {s @@ g : s \in Sources, g \in Signals}

TwoHexIds == {hex, owner}
OneWord  == {word}

Id(bangs, upper, body) == [bangs |-> bangs, upper |-> upper, body |-> body]
Senders == {None, Id(1, FALSE, hex), Id(0, TRUE, hex), Id(2, FALSE, hex), Id(1, FALSE, word),
            Id(1, TRUE, owner)}
SomeEnvelopes ==
  [fromId : Senders, from : {None, Id(1, FALSE, owner)}, signal : BOOLEAN,
   kind : {"text", "telemetry", "position", "other"}, text : {None, "blank", "words"},
   broadcast : BOOLEAN]
Names(env, legacy) == [env |-> env, legacy |-> legacy]
SomeLists == {Names(None, {}), Names({Id(0, TRUE, hex)}, {Id(1, FALSE, word)}),
              Names(None, {Id(2, FALSE, hex), Id(0, FALSE, word)})}
SomeConfigs ==
  [me : {Id(1, FALSE, owner)}, lists : SomeLists, allowAll : {FALSE}, channels : BOOLEAN,
   target : {None, Id(1, FALSE, owner), Id(1, FALSE, hex)}]
  \cup [me : {Id(1, FALSE, hex)}, lists : {Names({Id(1, FALSE, owner)}, {})}, allowAll : BOOLEAN,
         channels : {FALSE}, target : {Id(1, FALSE, owner)}]

HostChars == {"a", "7", ":", "[", "]"}
OneDigit  == {"7"}
NoPort    == <<"4", "4", "0", "3">>
SomePorts == {<<"7">>, <<"7", "7">>}
================================================================================
