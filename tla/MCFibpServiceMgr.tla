-------------------------- MODULE MCFibpServiceMgr --------------------------
(***************************************************************************)
(* FibpServiceMgr with two services, two clusters, two consul servers.     *)
(* The answers for a service: none; a node in two clusters; nodes of two   *)
(* types, each in one cluster, and among them some that may not be used.   *)
(***************************************************************************)
EXTENDS FibpServiceMgr

MCNames == {<<"a">>, <<"b">>}
MCTwo == <<"two">>
MCDev == <<"dev">>
MCClusters == {MCDev, MCTwo}
MCRpc == <<"rpc">>
MCServiceType == <<MCRpc, Custom>>

Node(host, tags, checks) == [host |-> host, tags |-> tags, checks |-> checks]
MCAnswers ==
  { <<>>,
    <<Node(1, <<MCRpc, MCDev, MCTwo>>, <<"passing">>)>>,
    <<Node(1, <<MCRpc>>, <<"passing", "passing">>), Node(2, <<MCTwo, MCRpc>>, <<>>),
      Node(3, <<MCTwo>>, <<"passing">>), Node(4, <<MCRpc>>, <<"passing", "critical">>),
      Node(5, <<MCRpc, MCTwo>>, <<"passing">>), Node(0, <<MCRpc>>, <<"passing">>)>> }
=============================================================================
