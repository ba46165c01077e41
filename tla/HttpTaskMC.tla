----------------------------- MODULE HttpTaskMC -----------------------------
(* Answers of every kind: with a length, in chunks, with neither, without a *)
(* body, redirections, and malformed ones.                                  *)
EXTENDS HttpTask

Plain == [interim |-> 0, start |-> "ok", headers |-> <<>>, data |-> <<>>,
          inchunks |-> FALSE, trailer |-> <<>>, behind |-> <<>>, wellformed |-> TRUE]

Length(value) == <<"Content-Length", value>>
Chunked == <<"Transfer-Encoding", <<"chunked">>>>

MCAnswers ==
    {[Plain EXCEPT !.headers = <<Length(<<"two">>)>>, !.data = <<"a", "b">>, !.behind = <<"a">>],
     [Plain EXCEPT !.interim = 1, !.headers = <<Length(<<"one">>)>>, !.data = <<"a">>],
     [Plain EXCEPT !.headers = <<Chunked, Length(<<"two">>)>>, !.data = <<"a", "b">>,
                   !.inchunks = TRUE, !.behind = <<"CR">>],
     [Plain EXCEPT !.headers = <<<<"Transfer-Encoding", <<"CR", "LF", "SP", "chunked">>>>>>,
                   !.data = <<"a">>, !.inchunks = TRUE, !.trailer = <<"b", "CR", "LF">>],
     [Plain EXCEPT !.start = "ok10", !.data = <<"a", "b">>],
     [Plain EXCEPT !.headers = <<<<"Connection", <<"SP", "close", "SP">>>>>>, !.data = <<"a">>],
     [Plain EXCEPT !.headers = <<<<"Connection", <<"CR", "LF", "SP", "close">>>>>>, !.data = <<"a">>],
     [Plain EXCEPT !.data = <<"a">>],
     [Plain EXCEPT !.start = "nothing", !.headers = <<Chunked>>],
     [Plain EXCEPT !.start = "moved", !.headers = <<<<"Location", <<"http">>>>, Length(<<"zero">>)>>],
     [Plain EXCEPT !.start = "moved307", !.headers = <<<<"Location", <<"http">>>>, Length(<<"zero">>)>>],
     [Plain EXCEPT !.start = "moved", !.headers = <<<<"Location", <<"https">>>>, Length(<<"zero">>)>>],
     [Plain EXCEPT !.start = "moved", !.headers = <<Length(<<"zero">>)>>],
     [Plain EXCEPT !.start = "junk", !.wellformed = FALSE],
     [Plain EXCEPT !.headers = <<<<"Other", <<"NUL", "a">>>>>>, !.wellformed = FALSE],
     [Plain EXCEPT !.headers = <<<<"Other", <<"a", "a", "a", "a", "a", "a", "a", "a", "a">>>>>>,
                   !.wellformed = FALSE],
     [Plain EXCEPT !.headers = <<Chunked>>, !.data = <<"a">>, !.wellformed = FALSE]}
=============================================================================
