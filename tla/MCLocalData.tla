---------------------------- MODULE MCLocalData ----------------------------
(* LocalData for TLC: two nodes of one tag; times whose texts are in another order. *)
EXTENDS LocalData, TLC

Symmetry == Permutations(Clients) \cup Permutations(Keys)

MCTagOf == [k \in Keys |-> CHOOSE t \in Tags : TRUE]
MCManagedSet == [s \in Subscriptions |-> CHOOSE n \in NodeSets : TRUE]
\* Lists, checks and events have little in common: they share one bound,
\* and with a reset.  A client that reads pages meets only events.
Rows ==
    IF reader.query = None
    THEN Cardinality(sources) + Cardinality({c \in Clients : check[c] # None})
           + lastSample + lastEvent + 2 * resets <= 3
    ELSE nodes = [k \in Keys |-> None] /\ lastEvent + resets <= 4

At(sec, frac) == [sec |-> sec, frac |-> frac]
MCTimes == <<At(0, <<5>>), At(0, <<5, 1>>), At(1, <<>>)>>

Asks(severity, since, until, limit) ==
    [severity |-> severity, since |-> since, until |-> until, limit |-> limit]
MCQueries ==
    {Asks(None, None, None, limit) : limit \in Limits}
      \cup {Asks("error", None, None, 1), Asks(None, MCTimes[1], None, 1),
            Asks(None, None, MCTimes[2], 1)}
=============================================================================
