------------------------------- MODULE MCClient -------------------------------
EXTENDS Client

Ask(command, args) == [command |-> command, args |-> args]

(* Arguments of one word, none and two, which together make a request of   *)
(* the right length.                                                       *)
AnyAsked ==
    {Ask("LIST", <<>>), Ask("REFRESH", <<>>), Ask("GET", <<Focused>>),
     Ask("SET", <<Focused, <<"50%">>>>), Ask("SET", <<<<"DP-1", "50%">>, <<>>>>)}

AnyWord == {"@focused", "DP-1", "50%"}

FocusedArgument == <<"@focused">>
FocusableOutputs == {<<"DP-1">>}

=============================================================================
