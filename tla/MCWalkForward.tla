---------------------------- MODULE MCWalkForward ----------------------------
(***************************************************************************)
(* An instance of WalkForward for TLC: one symbol, histories of up to      *)
(* sixteen days made of blocks of four, two windows before the locked      *)
(* segment and at most one in it.                                          *)
(***************************************************************************)
EXTENDS WalkForward

Bar(open, high, low, close, up, weak) ==
  [open |-> open, high |-> high, low |-> low, close |-> close, atr |-> 2, up |-> up, weak |-> weak]

Quiet == Bar(20, 21, 19, 20, {}, FALSE)
Breakout == Bar(20, 25, 20, 24, {1, 2, 3}, FALSE)
Rally == Bar(24, 32, 24, 30, {1, 2}, FALSE)
Dip == Bar(29, 30, 25, 26, {}, FALSE)
Slump == Bar(25, 25, 14, 15, {}, TRUE)

Trend == <<Breakout, Rally, Rally, Dip>>
Peak == <<Breakout, Rally, Dip, Slump>>
Shock == <<Slump, Breakout, Slump, Breakout>>
Gap == <<Quiet, Breakout, NoBar, Dip>>
Fade == <<Breakout, Rally, Slump, Quiet>>

\* The candles of a sequence of blocks.
Joined(blocks) ==
  LET bars == FlattenSeq(blocks)
  IN  [s \in Symbols |-> [d \in {i \in DOMAIN bars : bars[i] # NoBar} |-> bars[d]]]

MCHistories ==
  {Joined(<<a, b, c, d>>) : a \in {Trend, Shock, Gap}, b \in {Peak, Shock},
                            c \in {Peak, Gap}, d \in {Trend}}
    \union {Joined(<<a, b, c>>) : a \in {Peak, Gap}, b, c \in {Trend}}
    \union {Joined(<<a, b>>) : a \in {Trend, Shock}, b \in {Trend}}
    \union {Joined(<<Trend, Peak, Peak, Fade>>)}

MCConfigured == [warm |-> 1, mult |-> 2]

MCAxes == {<<[name |-> "warm", values |-> <<1, 2, 3>>]>>,
           <<[name |-> "mult", values |-> <<1, 3>>], [name |-> "warm", values |-> <<1, 3>>]>>,
           <<[name |-> "warm", values |-> <<3>>]>>}

MCOtherBars == {Rally, Slump}

=============================================================================
