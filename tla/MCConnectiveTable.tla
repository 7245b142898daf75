-------------------------- MODULE MCConnectiveTable --------------------------
(* The connectives of all six logics over lists of up to three domains, for  *)
(* the model checker.                                                        *)
EXTENDS ConnectiveTable

AllConnectives == {"and", "or", "implies"}

\* The ranges of the logics, and what a variable of each may have left.
Domains ==
  {<<"False", "True">>, <<"False", "True", "Unknown">>,
   <<"False", "True", "Unknown", "Contradiction">>, <<"Unknown">>}

=============================================================================
