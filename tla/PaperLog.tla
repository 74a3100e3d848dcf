----------------------------- MODULE PaperLog -----------------------------
(***************************************************************************)
(* The two forward logs: src/research/forward_log.py (one sleeve, --since) *)
(* and the --forward mode of src/research/portfolio.py (every sleeve); and *)
(* the aggregate report it prints without --forward, of the same trades.   *)
(* Each run reads the bars there are, runs the engines over all of them,   *)
(* appends the forward trades whose key the file does not have yet, reads  *)
(* the file back and writes a tally.                                       *)
(*                                                                         *)
(* An engine is a function of its bars: what it makes of them is chosen    *)
(* when a bar arrives and stays, unless the bars themselves are revised or *)
(* the shock engine's floor, taken over all of them, moves.                *)
(* The trades of the SHOCK sleeve are there from their entry on, marked to *)
(* the last bar until they are over, and two of them can have one entry;   *)
(* no, which of the two it is, and over are not written to the file.       *)
(* A run can be killed between any two of its steps and in the middle of   *)
(* its append, in a row or between a row and its newline; what is written  *)
(* next then stands on the same line.                                      *)
(***************************************************************************)
EXTENDS Amounts, SequencesExt

CONSTANTS
    Pnls,         \* what a trade can make
    ShockSleeve,  \* the sleeve of shock_sleeve
    MaxShocks,    \* bound on its trades
    WindowEnd,    \* WINDOW_END: forward is after it
    LastBar,      \* bound on the time of the bars, by program
    MaxRevisions  \* bound on the revisions of bars of the past

VARIABLES
    program,      \* "forward_log", "portfolio" or, without --forward, "aggregate"
    clock,        \* per sleeve the time of its last bar
    entered,      \* per sleeve the entry of the open trade, 0 if none
    trades,       \* per sleeve the trades of run_engine
    pc,           \* the step of the run in progress, "idle" if none
    scope,        \* its forward trades, fwd_closed or fwd
    new,          \* those it is about to append, in order
    log,          \* what was written to the jsonl file, row by row
    cut,          \* the first of its rows that lacks its newline, 0 if none
    tally,        \* the tally file
    revised,      \* history: how often trades of the past changed
    uneven,       \* history: a run met sleeves whose bars end at other times
    logged        \* history: the keys of the forward trades of all finished runs

dataVars == <<clock, entered, trades>>
runVars == <<pc, scope, new>>
fileVars == <<log, cut, tally>>
histVars == <<revised, uneven, logged>>
paperVars == <<dataVars, runVars, fileVars, histVars>>

\* The elements of T, any two of which Before puts in order: the place of one is
\* after all those that come before it.
InOrder(T, Before(_, _)) ==
    LET places == {<<Cardinality({u \in T : Before(u, t)}) + 1, t>> : t \in T}
    IN [i \in 1..Cardinality(T) |-> (CHOOSE p \in places : p[1] = i)[2]]

\* list.sort: what compares equal stays in the order it had.
Sorted(L, Before(_, _)) ==
    LET Ahead(i, j) == IF i < j THEN ~Before(L[j], L[i]) ELSE Before(L[i], L[j])
        place == InOrder(DOMAIN L, Ahead)
    IN [k \in DOMAIN L |-> L[place[k]]]

Sleeves == DOMAIN clock
NoTally == [n |-> -1]
Torn == [torn |-> TRUE]    \* a row of which only the beginning was written

PaperInit(sleeves) ==
    /\ clock = [s \in sleeves |-> 0]
    /\ entered = [s \in sleeves |-> 0]
    /\ trades = [s \in sleeves |-> {}]
    /\ pc = "idle" /\ scope = {} /\ new = <<>>
    /\ log = <<>> /\ cut = 0 /\ tally = NoTally
    /\ revised = 0 /\ uneven = FALSE /\ logged = {}

Key(t) == <<t.sleeve, t.entry>>
Id(t) == <<t.sleeve, t.entry, t.no>>
Forward(t) == t.entry > WindowEnd
-----------------------------------------------------------------------------
(* The bars.                                                                 *)

\* A bar on which the engine of a flat sleeve does nothing or enters, that of
\* an open one does nothing or exits.
NewBar(s) ==
    /\ s # ShockSleeve /\ clock[s] < LastBar[program]
    /\ clock' = [clock EXCEPT ![s] = @ + 1]
    /\ \/ UNCHANGED <<entered, trades>>
       \/ /\ entered[s] = 0
          /\ entered' = [entered EXCEPT ![s] = clock'[s]]
          /\ UNCHANGED trades
       \/ /\ entered[s] # 0
          /\ \E pnl \in Pnls :
               trades' = [trades EXCEPT ![s] = @ \cup
                            {[sleeve |-> s, entry |-> entered[s], no |-> 1,
                              exit |-> clock'[s], over |-> TRUE, pnl |-> pnl]}]
          /\ entered' = [entered EXCEPT ![s] = 0]
    /\ UNCHANGED <<runVars, fileVars, histVars>>

\* A bar of the SHOCK sleeve marks the trades that run and ends some of them;
\* up to two events enter on it.  Their exit is approximated by their entry.
ShockBar(s) ==
    /\ s = ShockSleeve /\ clock[s] < LastBar[program]
    /\ clock' = [clock EXCEPT ![s] = @ + 1]
    /\ \E held \in [{t \in trades[s] : ~t.over} -> [pnl : Pnls, over : BOOLEAN]],
          n \in 0..Least(2, MaxShocks - Cardinality(trades[s])) :
         \E pnl \in [1..n -> Pnls] :
           LET Marked(t) ==
                 IF t.over THEN t
                 ELSE [t EXCEPT !.pnl = held[t].pnl, !.over = held[t].over]
               Entry(no) == [sleeve |-> s, entry |-> clock'[s], no |-> no,
                             exit |-> clock'[s], over |-> FALSE, pnl |-> pnl[no]]
           IN trades' = [trades EXCEPT ![s] = {Marked(t) : t \in @}
                           \cup {Entry(no) : no \in 1..n}]
    /\ UNCHANGED <<entered, runVars, fileVars, histVars>>

\* The order of the append: by exit, equal exits in the order of the sleeves
\* and of their trades.
Sooner(t, u) ==
    \/ t.exit < u.exit
    \/ t.exit = u.exit /\ t.sleeve < u.sleeve
    \/ t.exit = u.exit /\ t.sleeve = u.sleeve /\ t.no < u.no

\* A trade of the past that was not there before: of SHOCK one more, of an
\* engine one in the time it was flat.
Appears(s) ==
    \E en, ex \in 1..clock[s] :
      /\ IF s = ShockSleeve THEN en = ex /\ Cardinality(trades[s]) < MaxShocks
         ELSE /\ en < ex
              /\ \A u \in trades[s] : u.exit < en \/ ex < u.entry
              /\ entered[s] # 0 => ex < entered[s]
      /\ \E no \in (IF s = ShockSleeve THEN 1..MaxShocks ELSE {1}),
            over \in (IF s = ShockSleeve THEN BOOLEAN ELSE {TRUE}), pnl \in Pnls :
           /\ \A u \in trades[s] : u.entry = en => u.no # no
           /\ trades' = [trades EXCEPT ![s] = @ \cup
                           {[sleeve |-> s, entry |-> en, no |-> no, exit |-> ex,
                             over |-> over, pnl |-> pnl]}]

\* A later file overrides bars or brings missing ones; or, for SHOCK, the
\* floor of its threshold, a median over all bars there are, has moved with
\* the new ones: a trade of the past disappears, ends differently or appears.
Revise(s) ==
    /\ revised < MaxRevisions /\ revised' = revised + 1
    /\ \/ Appears(s)
       \/ \E t \in trades[s] :
            \/ trades' = [trades EXCEPT ![s] = @ \ {t}]
            \/ \E pnl \in Pnls :
                 trades' = [trades EXCEPT ![s] =
                              (@ \ {t}) \cup {[t EXCEPT !.pnl = pnl]}]
    /\ UNCHANGED <<clock, entered, runVars, fileVars, uneven, logged>>
-----------------------------------------------------------------------------
(* A run.                                                                    *)

\* The process is gone, and with it what it had read.
Ends == pc' = "idle" /\ scope' = {} /\ new' = <<>>

InScope(since) ==
    {t \in UNION {trades[s] : s \in Sleeves} :
       Forward(t) /\ t.entry >= since}

\* forward_log ends here without a forward bar, portfolio without a forward
\* trade; only forward_log has --since.
Load(since) ==
    /\ pc = "idle"
    /\ IF program = "forward_log"
       THEN \E s \in Sleeves : clock[s] > WindowEnd
       ELSE since = 0 /\ InScope(0) # {}
    /\ pc' = "keys" /\ scope' = InScope(since)
    /\ uneven' = (uneven \/ \E s, r \in Sleeves : clock[s] # clock[r])
    /\ UNCHANGED <<new, dataVars, fileVars, revised, logged>>

\* Mutant of Missing: the exit, too, must be known.
MissingByTrade == {t \in scope : t \notin ToSet(log)}

Missing == {t \in scope : \A r \in ToSet(log) : Key(r) # Key(t)}

\* A row was written after one that lacks its newline: they are one line.
Glued == cut \in 1..(Len(log) - 1)

\* json.loads raises on a torn line and on one with two rows; the last row is
\* read without its newline, too.
Unreadable == Torn \in ToSet(log) \/ Glued

\* Where json.loads raises the run ends.
ReadKeys ==
    /\ pc = "keys"
    /\ IF Unreadable THEN Ends
       ELSE /\ pc' = "append" /\ new' = InOrder(Missing, Sooner)
            /\ UNCHANGED scope
    /\ UNCHANGED <<dataVars, fileVars, histVars>>

AppendRows ==
    /\ pc = "append" /\ pc' = "tally"
    /\ log' = log \o new
    /\ UNCHANGED <<scope, new, cut, tally, dataVars, histVars>>

\* Killed while the file is written: some rows are there, the last one perhaps
\* without its newline or only in part.
KilledInAppend ==
    /\ pc = "append" /\ Ends
    /\ \E k \in 0..Len(new), last \in {"whole", "bare", "torn"} :
         /\ last = "bare" => k > 0
         /\ last = "torn" => k < Len(new)
         /\ log' = log \o SubSeq(new, 1, k)
                      \o (IF last = "torn" THEN <<Torn>> ELSE <<>>)
         /\ cut' = IF last = "bare" /\ cut = 0 THEN Len(log') ELSE cut
    /\ UNCHANGED <<tally, dataVars, histVars>>

\* Killed elsewhere; the tally file is opened for writing first.
Killed ==
    /\ pc \in {"keys", "tally"} /\ Ends
    /\ \/ UNCHANGED tally
       \/ pc = "tally" /\ ~Unreadable /\ tally' = NoTally
    /\ UNCHANGED <<log, cut, dataVars, histVars>>

Earlier(t, u) == t.entry < u.entry

\* Mutant of Rows: the file as it is.
RowsAsFiled(L) == L

\* forward_log sorts what it reads back by entry, portfolio does not.
Rows(L) ==
    IF program = "forward_log" THEN Sorted(L, Earlier) ELSE L

\* The running sum, its peak, and the deepest fall from a peak.
Drawdown(rows) ==
    LET Step(a, t) ==
          LET cum == a.cum + t.pnl
              peak == Greatest(a.peak, cum)
          IN [cum |-> cum, peak |-> peak, mdd |-> Least(a.mdd, cum - peak)]
    IN FoldLeft(Step, [cum |-> 0, peak |-> 0, mdd |-> 0], rows).mdd

\* wins and pf are functions of the same rows.
TallyOf(L) ==
    LET rows == Rows(L)
        Total(sum, t) == sum + t.pnl
    IN [n |-> Len(rows), total |-> FoldLeft(Total, 0, rows),
        dd |-> Drawdown(rows), lines |-> Len(L)]

\* The file is read back first: where json.loads raises the run ends here.
WriteTally ==
    /\ pc = "tally" /\ Ends
    /\ IF Unreadable THEN UNCHANGED <<tally, logged>>
       ELSE /\ tally' = TallyOf(log)
            /\ logged' = logged \cup {Key(t) : t \in scope}
    /\ UNCHANGED <<log, cut, dataVars, revised, uneven>>

PaperRun ==
    \/ \E since \in 0..LastBar[program] : Load(since)
    \/ ReadKeys \/ AppendRows \/ KilledInAppend \/ Killed \/ WriteTally

PaperData == \E s \in Sleeves : NewBar(s) \/ ShockBar(s) \/ Revise(s)
-----------------------------------------------------------------------------
(* The aggregate report.                                                     *)

\* Mutant of Precedes: at one time, entries first.
EntriesFirst(e, f) == e.ts < f.ts \/ (e.ts = f.ts /\ e.d > f.d)

Precedes(e, f) == e.ts < f.ts \/ (e.ts = f.ts /\ e.d < f.d)

\* max_concurrency: a walk over the entries and exits of a list of trades.
MaxConcurrency(T) ==
    LET evs == [i \in DOMAIN T |-> [ts |-> T[i].entry, d |-> 1]]
                 \o [i \in DOMAIN T |-> [ts |-> T[i].exit, d |-> -1]]
        Walk(a, e) == [cur |-> a.cur + e.d, mx |-> Greatest(a.mx, a.cur + e.d)]
    IN FoldLeft(Walk, [cur |-> 0, mx |-> 0], Sorted(evs, Precedes)).mx
=============================================================================
