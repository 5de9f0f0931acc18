--------------------------- MODULE MCSideProtocols ---------------------------
EXTENDS SideProtocols

\* Three consoles for two places, one of which changes its state.
Ans(c, s) == [id |-> c, state |-> s]
MCHosts == {Ans("c1", "READY"), Ans("c1", "STANDBY"), Ans("c2", "READY"), Ans("c3", "READY")}

Blank == <<"r", "n", "r", "n">>
Line(k) == <<k, TRUE>>
Bad(k) == <<k, FALSE>>
Content == <<Line("Mac"), Line("RP-Key"), Line("RegistKey")>>
Answer(bytes, code, length) == [bytes |-> bytes, code |-> code, length |-> length]

\* Answers that promise what they bring, with less or more or more than a size_t
\* holds, with an invalid key, a repeated key or a header longer than the buffer, and
\* every short header a console could begin with.
MCAnswers ==
  {Answer(<<"x">> \o Blank \o Content, 200, 3), Answer(<<"x">> \o Blank \o Content, 403, 3),
   Answer(<<"x">> \o Blank \o Content, 200, 0), Answer(<<"x">> \o Blank \o Content, 200, 9),
   Answer(<<"x">> \o Blank \o Content, 200, 15), Answer(<<"x">> \o Blank \o Content, 200, 10),
   Answer([i \in 1 .. 6 |-> "x"] \o Blank \o Content, 200, 3),
   Answer(Blank \o Content \o <<Line("Nickname")>>, 200, 3),
   Answer(Blank \o Content \o <<Line("Nickname")>>, 200, 4),
   Answer(Blank \o <<Line("Mac"), Bad("RP-Key"), Line("RegistKey")>>, 200, 3),
   Answer(Blank \o <<Bad("RP-Key"), Line("Mac"), Line("RP-Key"), Line("RegistKey")>>, 200, 4)}
  \cup {Answer(s \o <<"r", "n">> \o Content, 200, 3) : s \in UNION {[1..n -> {"r", "n", "x"}] : n \in 0..4}}

MCRequests == [target : {"PS4_8", "PS5_1"}, online : BOOLEAN, account : {TRUE}]
=============================================================================
