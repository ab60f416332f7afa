-------------------------- MODULE MCDailySnapshots --------------------------
(***************************************************************************)
(* DailySnapshots from two sides, chosen in the initial state: "deep" lets *)
(* every writer of the configuration work on one repository over all days, *)
(* "wide" lets a run pass over two repositories while adds and pauses      *)
(* change the registry.                                                    *)
(***************************************************************************)
EXTENDS DailySnapshots

CONSTANTS Deep,     \* the repository of the deep side
          WideDays  \* bound: days of the wide side

VARIABLE side

OneRepository ==
    \A r \in Repos \ {Deep} : /\ version'[r] = version[r]
                              /\ reg'[r] = reg[r]
                              /\ \A a \in Adders : add'[a].repo # r

Wide ==
    \/ day < WideDays /\ Midnight
    \/ \E r \in Repos : Change(r) \/ WatchAdd(r) \/ Pause(r)
    \/ \E p \in Runners : RunStep(p)

SidedNext ==
    /\ UNCHANGED side
    /\ \/ side = "deep" /\ Next /\ OneRepository
       \/ side = "wide" /\ Wide

SidedSpec == Init /\ side \in {"deep", "wide"} /\ [][SidedNext]_<<vars, side>>
=============================================================================
