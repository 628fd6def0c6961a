-------------------------- MODULE MCMessageStream ---------------------------
(* MessageStream with two messages of different length.                    *)
EXTENDS MessageStream

TwoLetters == {"t", "c"}
ShortLong  == { << <<"t">>, << >> >>, << <<"t">>, <<"c", "c">> >> }
=============================================================================
