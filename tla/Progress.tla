------------------------------ MODULE Progress ------------------------------
(***************************************************************************)
(* What a finished match adds to its player's history                      *)
(* (packages/intelligence/src/post-match-progress.ts: personal records and *)
(* deal streaks), over the matches that GameReview plays.                  *)
(*                                                                         *)
(* A history is a sequence of rows in any order, one per earlier or later  *)
(* match of the same player: its end, its outcome, the persona faced (None *)
(* for a human) and the four numbers records are kept of.  A share is in   *)
(* percent.                                                                *)
(***************************************************************************)
EXTENDS GameReview

CONSTANTS
    Personas,   \* the keys of the personas
    Histories,  \* the other matches the route may find
    MatchId     \* the id of the match that has just been reviewed

Records == {"share", "close", "hold", "step"}

\* One match in a history.
Row ==
    [id : Int, endedAt : Int, persona : Personas \cup {None},
     outcome : {"DEAL", "NO_DEAL_WALKED", "NO_DEAL_TIMED_OUT", "ABORTED"},
     share : Int \cup {None}, close : Int \cup {None}, hold : Int \cup {None},
     step : Int \cup {None}]

\* buildPostMatchProgress throws on a duplicate id.  Ids are numbers here: all
\* that counts is that they are ordered.
ASSUME ProgressAssumption ==
    /\ None \notin Personas /\ MatchId \in Int
    /\ \A h \in Histories :
         /\ h \in Seq(Row)
         /\ \A i \in DOMAIN h :
              /\ h[i].id # MatchId
              /\ \A j \in DOMAIN h : h[i].id = h[j].id => i = j

LargestOf(s) == IF s = <<>> THEN None ELSE Max(ToSet(s))

\* The row of p for the match m with events ev (featuresFor), its opponent open.
RowOf(m, ev, p) ==
    LET moves == ClassifyMoves(ev, p)
        given == Concessions(moves)
        cross == FirstCrossAt(ev)
        deal == m.status = "DEAL"
    IN  [id |-> MatchId, endedAt |-> m.completedAt, outcome |-> Outcome(m),
         persona |-> None,
         share |-> IF deal THEN (100 * SurplusShare(m, p, m.settlement)) \div Zopa(m) ELSE None,
         close |-> IF deal /\ cross # None THEN m.completedAt - cross ELSE None,
         hold |-> LargestOf(DecisionTimes(ev, p, moves)),
         step |-> LargestOf([i \in DOMAIN given |-> Gap(given[i].amount, given[i].previous)])]

Deal(r) == r.outcome = "DEAL"

\* The order of sortByEnd.
Earlier(r, t) == r.endedAt < t.endedAt \/ (r.endedAt = t.endedAt /\ r.id < t.id)

\* sortByEnd puts the rows in place one by one.
PutIn(sorted, r) ==
    InsertAt(sorted, SelectLastInSeq(sorted, LAMBDA t : Earlier(t, r)) + 1, r)

SortByEnd(rows) == FoldLeft(PutIn, <<>>, rows)

\* The rows by their end, without those of aborted matches.
Playable(rows) == Filter(SortByEnd(rows), LAMBDA r : r.outcome # "ABORTED")

\* Only a strictly better number takes a record over.
Beats(key, value, best) ==
    /\ value # None
    /\ best = None \/ (IF key = "close" THEN value < best ELSE value > best)

\* personalRecordsOf: the value and the match of one record.
PersonalRecord(rows, key) ==
    FoldLeft(LAMBDA best, r :
                 IF Beats(key, r[key], best.value) THEN [value |-> r[key], id |-> r.id] ELSE best,
             [value |-> None, id |-> None], rows)

\* Bug: the streak is counted from the first match on.
DealStreak_FromFirst(rows) ==
    LET broken == SelectInSeq(rows, LAMBDA r : ~Deal(r)) IN
    IF broken = 0 THEN Len(rows) ELSE broken - 1

\* The deals in a row that end with the newest of these matches.
DealStreak(rows) == Len(rows) - SelectLastInSeq(rows, LAMBDA r : ~Deal(r))

AgainstPersona(rows, key) == Filter(rows, LAMBDA r : r.persona = key)

-----------------------------------------------------------------------------
(* Properties                                                              *)

\* The record of key stays, or the match of row sets it and it is no worse.
RecordOnlyImproves(key, old, new, row) ==
    /\ new = old \/ new = [value |-> row[key], id |-> row.id]
    /\ old.value # None =>
         IF key = "close" THEN new.value <= old.value ELSE new.value >= old.value
    /\ new.value = None <=> old.value = None /\ row[key] = None

RecordsOnlyImprove(before, after, row) ==
    \A key \in Records :
        RecordOnlyImproves(key, PersonalRecord(before, key), PersonalRecord(after, key), row)

StreakGrowsOrEnds(streak, rows, row) ==
    Last(rows) = row => DealStreak(rows) = IF Deal(row) THEN streak + 1 ELSE 0

StreaksMoveAlone(before, after, row) ==
    \A k \in Personas :
        IF k = row.persona
        THEN StreakGrowsOrEnds(DealStreak(AgainstPersona(before, k)), AgainstPersona(after, k), row)
        ELSE DealStreak(AgainstPersona(after, k)) = DealStreak(AgainstPersona(before, k))

OnlyAdds(h, row) ==
    /\ RecordsOnlyImprove(Playable(h), Playable(Append(h, row)), row)
    /\ \A k \in Personas :
         StreaksMoveAlone(Playable(h), Playable(Append(h, [row EXCEPT !.persona = k])),
                          [row EXCEPT !.persona = k])

\* A match that is added to a history, at its end or in the middle of it,
\* changes a record only by setting it, and never for the worse; against a
\* persona it extends the streak of deals by one or ends it, and it leaves the
\* streaks against the others alone (post-match-progress.ts:136-184, 208-209, 237-238).
ProgressOnlyAdds ==
    Terminal(match) /\ Outcome(match) # "ABORTED" =>
        \A p \in Player : LET row == RowOf(match, events, p) IN
            \A h \in Histories : OnlyAdds(h, row)
=============================================================================
