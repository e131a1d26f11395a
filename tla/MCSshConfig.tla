----------------------------- MODULE MCSshConfig ------------------------------
(* Texts of up to four lines out of eighteen: a blank one; Host lines with one
   alias, with two, with a pattern and without; fields with values, at the
   bounds of the port, empty and missing; directives that are not supported. *)
EXTENDS SshConfig

Line(directive, args) == [directive |-> directive, args |-> args]

MCLines ==
    {Line(Nothing, <<>>), Line("host", <<>>), Line("host", <<"gpu">>), Line("host", <<"dev", "gpu">>),
     Line("host", <<"gpu", "*">>), Line("hostname", <<"10.0.0.2">>),
     Line("hostname", <<"">>), Line("hostname", <<>>),
     Line("port", <<"1">>), Line("port", <<"65535">>), Line("port", <<"65536">>),
     Line("port", <<"">>), Line("port", <<"22", "23">>),
     Line("user", <<"dev">>), Line("identityfile", <<"~/id">>),
     Line("identityfile", <<"id", "box">>),
     Line("proxyjump", <<"bastion">>), Line("match", <<"all">>)}
MCWildcards == {"*"}
MCNumber ==
    [w \in {<<"1">>, <<"22">>, <<"65535">>, <<"65536">>} |->
        CASE w = <<"1">> -> 1 [] w = <<"22">> -> 22
          [] w = <<"65535">> -> 65535 [] w = <<"65536">> -> 65536]
MCExpanded == [p \in {<<"~/id">>} |-> <<"/home/id">>]
=============================================================================
