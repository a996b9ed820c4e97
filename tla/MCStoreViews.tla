----------------------------- MODULE MCStoreViews -----------------------------
(* The tables of a cluster and what is made of them, and the ids of a        *)
(* subject's versions; they share no state, so a behaviour is one or the     *)
(* other.                                                                    *)
(* One topic of up to two partitions, a group of two members, two brokers    *)
(* with a replica that moves and a directory that failed, and lists and      *)
(* records that fit, that fit in part, and of which nothing fits.            *)
EXTENDS StoreViews, SchemaIds

VARIABLE of

MCGroups ==
  {[state |-> "Stable", held |-> [m1 |-> {1}, m2 |-> {}]],
   [state |-> "Stable", held |-> [m1 |-> {1}, m2 |-> {2}]],
   [state |-> "Rebalancing", held |-> [m1 |-> {}, m2 |-> {}]]}

Dir(b, failed, logs) == [path |-> "d", broker |-> b, failed |-> failed, replicas |-> logs]
Log(p, size, future) == [partition |-> p, size |-> size, future |-> future]
MCDisks ==
  {{Dir(1, FALSE, {Log(1, 2, FALSE), Log(2, 1, FALSE)}),
    Dir(2, FALSE, {Log(1, 3, FALSE), Log(2, 1, TRUE)})},
   {Dir(1, TRUE, {Log(1, 2, FALSE)}), Dir(2, FALSE, {Log(2, 1, TRUE)})}}

List(lists, inner, limit, weight) ==
  [lists |-> lists, inner |-> inner, limit |-> limit, weight |-> weight]
MCLists ==
  {List(<<3>>, <<>>, NoLimit, 1), List(<<9>>, <<>>, NoLimit, 1), List(<<9>>, <<>>, 0, 1),
   List(<<9>>, <<>>, 7, 1), List(<<2>>, <<>>, NotPaged, 9), List(<<3, 5>>, <<4, 1>>, NotPaged, 1)}
MCTexts ==
  {<<[texts |-> <<2, 1>>, headers |-> <<>>]>>,
   <<[texts |-> <<5, 4>>, headers |-> <<<<1, 0>>, <<0, 0>>>>]>>,
   <<[texts |-> <<0, 1>>, headers |-> <<<<0, 0>>, <<0, 0>>, <<0, 0>>, <<0, 0>>, <<0, 0>>, <<0, 0>>, <<0, 0>>>>]>>,
   <<[texts |-> <<9>>, headers |-> <<>>], [texts |-> <<1, 1>>, headers |-> <<<<2, 3>>>>]>>, <<>>}

-----------------------------------------------------------------------------
SumInit ==
  /\ of \in {"cluster", "subject"}
  /\ of = "subject" => live = "replies" /\ count = 1
  /\ Init /\ SchemaInit

\* Nothing is said of a subject of which one poll has seen two lives.  The views
\* do not tell which of two lookups was answered first.
ToldApart == ~mixed /\ (live = "views" /\ fetch # Null => fetch.first = "high")

SumNext ==
  \/ of = "cluster" /\ Next /\ UNCHANGED <<of, schemaVars>>
  \/ of = "subject" /\ SchemaNext /\ UNCHANGED <<of, vars>>

SumSpec == SumInit /\ [][SumNext]_<<of, vars, schemaVars>>
=============================================================================
