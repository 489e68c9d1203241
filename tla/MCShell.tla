------------------------------- MODULE MCShell -------------------------------
(* Small instances of Shell: lines that fill the Pi's buffer to within a    *)
(* character, one after another; calls with every conversion, numbers at    *)
(* both ends of a byte, and buffers that cut the text.                      *)
EXTENDS Shell

a == 97
Line(s) == s \o <<Newline>>
Echoes == {Line(echo \o <<Space>> \o [i \in 1 .. n |-> a]) : n \in {1, 5, 6, 7, 8}}
Lines == Echoes \cup
  {<<Newline>>, Line(reboot), Line(<<Space, a, Space, Space, a>>), Line(<<a, Space, a, Space, a, Space>>),
   Line(dot_bin), Line(<<a>> \o dot_bin), Line(echo), <<a, a>>, Line([i \in 1 .. 19 |-> a])}
MCTyped == {l \o k : l \in Lines, k \in Lines} \cup {l \o k \o l : l \in Echoes, k \in Lines}

Numbers == <<0, 1, 9, 10, 99, 127, 128, 129, 255>>
Specifiers == <<Char.dec, Char.uns, Char.hex, Char.ptr, Char.bin, Char.chr, Char.float>>
Widths == <<0, 2, 10, 31, 32>>
One(c, w, n) == <<Text(<<a, Percent>>), Conv(c, w, <<n>>), Text(<<a>>)>>
MCCalls ==
  [k \in 1 .. 7 * 5 * 9 * 2 |->
     LET j == k - 1 IN
       <<One(Specifiers[1 + (j % 7)], Widths[1 + ((j \div 7) % 5)], Numbers[1 + ((j \div 35) % 9)]),
         IF j \div 315 = 0 THEN 7 ELSE 64>>]
  \o <<<< <<Conv(Char.str, 4, <<a, a>>), Conv(Char.dec, 0, <<200>>), Conv(Char.str, 0, <<>>)>>, 5>>,
       << <<Conv(Char.str, 0, <<a, a, a, a>>), Conv(Char.float, 0, <<0>>)>>, 4>>,
       << <<Text(<<a>>)>>, 1>>>>

MCMemories == [0 .. 5 -> {Nul, 1, 2}] \cup {[x \in 0 .. 15 |-> x + 1]}
=============================================================================
