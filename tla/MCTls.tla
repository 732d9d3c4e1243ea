-------------------------------- MODULE MCTls ---------------------------------
(* TlsSetup with two suites of each version.                                  *)
EXTENDS TlsSetup

CONSTANTS a12, b12, a13, b13, unknown

MCLists ==
    {<<>>, <<a13>>, <<b12, a13>>, <<a12>>, <<a13, unknown>>, <<b12, unknown>>}

MCEnds ==
    [versions : {{12}, {13}, {12, 13}}, suites : {{a12, a13}, {a12, b12, a13, b13}, {b12}},
     certificate : {"none", "public", "private"}]

=============================================================================
