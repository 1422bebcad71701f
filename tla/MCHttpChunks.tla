---------------------------- MODULE MCHttpChunks ----------------------------
(***************************************************************************)
(* A small instance of HttpChunks: two methods, one version, requests of   *)
(* up to a dozen bytes.  Every stream is a well-formed beginning followed  *)
(* by every tail of up to TailLength bytes over the separators and a few   *)
(* letters, or one of a few longer requests that reach the limits.         *)
(***************************************************************************)
EXTENDS HttpChunks, SequencesExt

CONSTANT TailLength

Line(method) == method \o <<"SP", "x", "SP", "v">>
LengthHeader(digits) == <<"c", "COLON">> \o digits \o <<"LF">>
Get == <<"G">>
Put == <<"P", "P">>

TailBytes == {"CR", "LF", "SP", "COLON", "C", "x", "d1"}

Beginnings ==
    {Line(Get) \o <<"LF">>,
     Line(Put) \o <<"CR", "LF">> \o LengthHeader(<<"d2">>)}

FirstLines ==
    {Get \o <<"SP">> \o t : t \in BoundedSeq({"x", "SP", "CR", "v", "LF"}, TailLength)}
    \cup BoundedSeq({"G", "P", "SP", "x"}, TailLength)

LongRequests ==
    {Line(Get) \o <<"LF">> \o LengthHeader(digits) \o <<"LF">> \o body :
        digits \in {<<"d2">>, <<"d7">>, <<"d8">>, <<"d9">>, <<"d1", "d2">>, <<"d2", "d1">>, <<"d2", "d9">>, <<"d0">>},
        body \in {<<>>, <<"x">>, <<"x", "LF">>, <<"x", "LF", "LF", "x">>,
                  [k \in 1..9 |-> "x"]}}
    \cup {Line(Get) \o <<"LF">> \o header \o <<"LF", "LF">> :
             header \in {<<"t", "COLON", "x">>,
                         <<"x", "COLON", "x", "CR">>,
                         <<"x", "COLON", "CR", "LF", "C", "COLON", "d0", "CR">>,
                         <<"x", "COLON", "SP", "x", "SP", "x", "SP">>,
                         <<"x", "COLON", "LF", "C", "COLON">>,
                         <<"x", "COLON", "LF", "x", "COLON", "LF", "x", "COLON">>,
                         <<"x", "COLON", "x", "x", "x", "x", "x", "x", "x">>,
                         <<"c", "COLON", "d1", "LF", "C", "COLON", "d0">>}}

MCStreams ==
    {b \o t : b \in Beginnings, t \in BoundedSeq(TailBytes, TailLength)}
    \cup FirstLines \cup LongRequests

MCMethods == {Get, Put}
MCVersions == {<<"v">>}
MCNormalizeUri(uri) == IF uri = <<"x">> THEN 200 ELSE 400
=============================================================================
