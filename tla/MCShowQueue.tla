----------------------------- MODULE MCShowQueue -----------------------------
(***************************************************************************)
(* ShowQueue for TLC: what can be asked about a show.                      *)
(***************************************************************************)
EXTENDS ShowQueue, TLC

CONSTANT s1

Ask(action, s, force) ==
    [action |-> action, show |-> s, scheduled |-> FALSE, force |-> force]

\* the daily update and what the web can ask
Dailies(s)  == {DailyUpdate(s), DailyRefresh(s), RefreshAfter(DailyUpdate(s))}
Manuals(s)  == {Ask("force update", s, TRUE), Refresh(s, FALSE, TRUE), Refresh(s, FALSE, FALSE)}
MCWork      == UNION {Dailies(s) \cup Manuals(s) \cup {Ask("add", s, FALSE), Ask("switch", s, FALSE)}
                      : s \in Show}

MCAction    == [w \in Work |-> w.action]
MCPriority  == [w \in Work |-> ShowPriority(w.action)]
MCKey       == [w \in Work |-> <<w.show, w.action>>]
MCPersisted == {w \in Work : w.action # "switch"}
=============================================================================
