------------------------------ MODULE MCFeed ------------------------------
(* Short streams for each consumer, with room for gaps of a day.             *)
EXTENDS FeedProperties

Shape(o, h, l, c, v) == [o |-> o, h |-> h, l |-> l, c |-> c, v |-> v]

Up   == Shape(2, 6, 1, 5, 1)
Down == Shape(4, 5, 0, 1, 2)
High == Shape(6, 9, 6, 8, 1)

\* For the shock engine, in twentieths: a rise, a fall, a quiet bar that stays
\* above the stops of a rise, and a bar that goes another impulse higher.
ShockShapes == {Shape(20, 220, 0, 180, 2), Shape(220, 240, 20, 60, 2),
                Shape(180, 200, 160, 180, 1), Shape(240, 400, 220, 380, 1)}

\* For the reports, with gaps that are exactly half and all of the close before.
DayShapes == {Shape(2, 6, 1, 4, 1), Shape(4, 5, 1, 2, 1), Shape(3, 3, 3, 3, 1)}

MCShapes ==
    [aggregators |-> {Up, Down}, live |-> {}, context |-> {Up, Down},
     shock |-> ShockShapes, days |-> DayShapes, drift |-> {Down, High}]

MCHorizon == [aggregators |-> 5, live |-> 3, context |-> 16, shock |-> 5,
              days |-> 10, drift |-> 9]
MCMaxBars == [aggregators |-> 4, live |-> 9, context |-> 5, shock |-> 5,
              days |-> 5, drift |-> 5]
MCBuckets == <<<<0, 500>>, <<500, 1000>>, <<1000, 10000000>>>>
=============================================================================
