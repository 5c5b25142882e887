------------------------------- MODULE MCExchange -------------------------------
(* Two sessions: one with images, references and thoughts, one that agents have left. *)
EXTENDS Exchange

Says(n) == TextPart(<<<<0, n, 0>>>>)
Shows(n) == ImagePart(<<<<0, n, 0>>>>)
Calls(m, calls) == [m EXCEPT !.calls = calls]
Answers(call, n) == [Message("tool", <<Says(n)>>) EXCEPT !.answers = <<call>>]
Thinks(m, n) == [m EXCEPT !.reasoning = <<<<0, n, 1>>>>]

Plain ==
  <<Message("user", <<Says(1), Shows(2), Says(3)>>),
    Thinks(Message("assistant", <<Says(4)>>), 4),
    Message("system", <<Says(5), Shows(7)>>),
    Message("user", <<Says(6), ImagePart(<<>>)>>)>>

\* The last reply of an agent may hold calls that nobody answers, or nothing at all.
Left ==
  <<Message("user", <<Says(1)>>),
    Calls(Message("assistant", <<Says(2)>>), <<<<0, 1>>, <<0, 2>>>>),
    Answers(<<0, 1>>, 3), Answers(<<0, 2>>, 4),
    Calls(Message("assistant", <<>>), <<<<0, 3>>>>),
    Message("user", <<Says(5)>>),
    Message("assistant", <<>>),
    Message("user", <<Says(6)>>)>>

MCOpenings == {Plain, Left}

=============================================================================
