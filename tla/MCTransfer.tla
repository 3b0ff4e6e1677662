----------------------------- MODULE MCTransfer -----------------------------
EXTENDS Transfer

K == <<7>>
P == <<80>>
Q == <<81>>

MCRegistry ==
  (P :> (1 :> <<"int", 3, TRUE>> @@ 2 :> <<"ptr", <<"string">>>>))
  @@ (Q :> (1 :> <<"slice", <<"struct", P>>>> @@ 2 :> <<"slice", <<"slice", <<"bool">>>>>>
            @@ 3 :> <<"map", <<"string">>, <<"int", 3, FALSE>>>>))

\* Fields 1 and 2 are known, 3 is not (P); all are known (Q).
MCOrders == {<<1, 2, 3>>, <<3, 2, 1>>, <<1, 3, 2>>}

Str(s) == <<"string", s>>
PWith(n, s) == <<"struct", P, 1 :> <<"int", 3, TRUE, n>> @@ 2 :> s>>
QWith(a, b, c) == <<"struct", Q, 1 :> <<"array", a>> @@ 2 :> <<"array", b>> @@ 3 :> <<"map", c>>>>

Items == {
  <<"nil">>, <<"bool", TRUE>>, <<"ptr", <<"bool", FALSE>>>>,
  <<"int", 3, FALSE, 7>>, <<"int", 3, TRUE, -4>>, <<"int", 3, TRUE, -1>>,
  <<"int", 6, FALSE, 63>>, <<"int", 6, TRUE, -32>>,
  <<"float", 32, 5>>, <<"float", 64, NegZero>>,
  <<"bytes", <<9, 8>>>>,
  <<"array", <<Str(<<5>>), <<"nil">>, <<"array", <<>>>>>>>>,
  <<"map", <<<<Str(<<5>>), <<"bool", TRUE>>>>>>>>,
  PWith(3, <<"nil">>), PWith(-4, <<"ptr", Str(<<>>)>>), PWith(-1, <<"ptr", Str(<<6>>)>>),
  <<"struct", P, 1 :> <<"int", 3, TRUE, 2>> @@ 2 :> <<"nil">> @@ 3 :> <<"bool", TRUE>>>>,
  QWith(<<PWith(1, <<"nil">>)>>, <<>>, <<>>),
  QWith(<<>>, <<<<"array", <<<<"bool", TRUE>>>>>>>>, <<<<Str(<<5>>), <<"int", 3, FALSE, 7>>>>>>) }

Large == Str([i \in 1 .. 12 |-> i])

\* A stream's Response and StartStream are left out before what follows them.
FromServer ==
  {StreamItem(v) : v \in Items \cup {Large}} \cup {
    Response(0, FALSE, <<>>, <<Str(<<5>>), <<"nil">>>>),
    Response(0, FALSE, <<>>, <<Large>>),
    Response(5, TRUE, <<<<K, <<4>>>>, <<K, <<>>>>>>, <<>>),
    Response(0, TRUE, <<>>, [i \in 1 .. 17 |-> <<"bool", TRUE>>]),
    <<"StartStream">>, <<"EndStream">>,
    StreamMetadata(<<<<K, <<1, 2>>>>>>),
    StreamError(2, <<<<K, <<4>>>>>>) }
FromClient == {
  Request(<<2>>, <<3>>, TRUE, <<<<K, <<4>>>>>>, <<<<"int", 3, FALSE, 5>>>>),
  Request(<<2>>, <<3>>, TRUE, <<>>, <<Large>>),
  Request(<<>>, <<3>>, FALSE, <<>>, <<>>) }
MCMessages == [server |-> <<FromServer, {<<"EndStream">>}>>,
               client |-> <<FromClient, {<<"StartStream">>}>>]

MCControls ==
  [server |-> {Ping(TRUE, <<1, 2, 3, 4, 5, 6, 7, 8>>), GoAway(1, 2, <<3>>), ResetStream(2, 3)},
   client |-> {GoAway(1, 2, <<>>), MakeStream(2), ResetStream(2, 3)}]

MCBuffers ==
  {Wrap(m) : m \in FromServer \cup FromClient \cup {<<"EndStream">>, <<"StartStream">>}}

\* For the run about large responses.
LargeResponses == {Response(0, TRUE, <<>>, <<Large>>)}
MCResponses == [server |-> <<LargeResponses>>, client |-> <<{}>>]
MCLargeBuffers == {Wrap(m) : m \in LargeResponses}
MCNoControls == [server |-> {}, client |-> {}]
=============================================================================
