--------------------------- MODULE MCCommandInput ---------------------------
(* Messages that between them take every branch of the command input.      *)
EXTENDS CommandInput

\* The default message is a text of one unit.
Msg(id, len) == [id |-> id, packet |-> FALSE, len |-> len, declared |-> 0,
                 tid |-> -1, md5 |-> FALSE, wanted |-> TRUE]
Packet(id, len, tid) == [Msg(id, len) EXCEPT !.packet = TRUE,
                                             !.declared = len, !.tid = tid]

MCUartCommand == [Msg("typed", 2) EXCEPT !.wanted = FALSE]

Text      == Msg("text", 1)
LongText  == Msg("long text", 5)
Short     == Packet("short", 2, 1)
Long      == [Packet("long", 4, 2) EXCEPT !.md5 = TRUE]
Truncated == [Packet("truncated", 2, -1) EXCEPT !.declared = 3, !.wanted = FALSE]
Overlong  == [Packet("overlong", 3, 0) EXCEPT !.declared = 2]

MCMessage == {Text, LongText, Short, Long, Truncated, Overlong}
MCThree   == {Short, Long, Packet("none", 3, -1)}
MCTwo     == {Text, Packet("two", 2, 1)}
=============================================================================
