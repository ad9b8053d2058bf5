----------------------------- MODULE MCContext -----------------------------
(* Instances of ContextAssembler for TLC.                                  *)
EXTENDS ContextAssembler

Of(fate, length, place) == [length |-> length, fate |-> fate, place |-> place, text |-> place]
Wanted(length, place) == Of("relevant", length, place)
Other(place) == Of("irrelevant", 60, place)
Copy(record, place) == [record EXCEPT !.place = place]

Limits ==
  [c \in Category |-> IF c = "facts" THEN 3 ELSE IF c = "memories" THEN 2 ELSE 1]

(* Long facts, and records that leave, or do not leave, the few characters *)
(* that the account of a refused record takes.  Of each source there is    *)
(* one content that is not read to its end: the relevant record, or the    *)
(* original of a copy, comes last.                                         *)
Facts ==
  {<<Wanted(3700, 2), Wanted(3700, 1), Wanted(n, 3)>> : n \in {100, 1700, 3800, 3880}}
    \cup {<<Wanted(3700, 4), Wanted(90, 6), Other(1), Other(2), Other(3), Other(5)>>}

Goals ==
  {<<active, terminal>> :
     active \in {<<>>, <<Wanted(330, 1)>>},
     terminal \in {<<>>, <<Wanted(320, 1)>>, <<Wanted(310, 1), Wanted(400, 2)>>}}
  \cup {<<<<Wanted(330, 1)>>, <<Wanted(310, 1), Other(2), Other(3), Other(4)>>>>}

(* The goals of both categories share one order, here the terminal first.  *)
After(first, records) ==
  [i \in DOMAIN records |-> Copy(records[i], Len(first) + records[i].place)]

Preferences ==
  {<<established, provisional>> :
     established \in {<<>>, <<Of("irrelevant", 60, 3), Wanted(70, 2), Wanted(55, 1)>>},
     provisional \in {<<>>, <<Wanted(50, 1)>>}}
  \cup {<<<<Wanted(70, 3), Other(1), Other(2), Other(4)>>, <<Wanted(50, 1)>>>>}

Memories ==
  {<<>>, <<Wanted(2070, 1)>>, <<Wanted(90, 1), Copy(Wanted(90, 1), 2)>>,
   <<Wanted(1500, 1), Of("oversized", 2100, 2)>>,
   <<Wanted(80, 5), Other(1), Other(2), Other(3), Other(4)>>,
   <<Copy(Wanted(80, 5), 3), Other(1), Other(2), Other(4), Wanted(80, 5)>>}

Offered ==
  {[facts |-> facts, active_goals |-> After(goals[2], goals[1]), terminal_goals |-> goals[2],
    established |-> preferences[1], provisional |-> After(preferences[1], preferences[2]),
    memories |-> memories] :
     facts \in Facts, goals \in Goals, preferences \in Preferences, memories \in Memories}
=============================================================================
