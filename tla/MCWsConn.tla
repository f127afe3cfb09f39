------------------------------ MODULE MCWsConn ------------------------------
(* Configurations and foreign peers for WsConn. *)
EXTENDS WsConn

Config(client, http_cb, deflate, cnct, cmwb, smwb) ==
  [is_client |-> client, http_cb |-> http_cb, ping |-> TRUE, deflate |-> deflate,
   cnct |-> cnct, snct |-> cnct, cmwb |-> cmwb, smwb |-> smwb]

MCConfigs ==
  {Config(TRUE, FALSE, TRUE, FALSE, 0, 0), Config(TRUE, TRUE, TRUE, TRUE, 10, 12),
   Config(TRUE, TRUE, FALSE, FALSE, 0, 0),
   Config(FALSE, FALSE, TRUE, FALSE, 0, 0), Config(FALSE, FALSE, FALSE, FALSE, 0, 0)}

Good == ws_build_request(1, Config(TRUE, FALSE, TRUE, TRUE, 9, 9))

MCRequests == {Good, [Good EXCEPT !.version = 8], [Good EXCEPT !.key = 0]}

Ext(name, params) == <<[name |-> name, params |-> params]>>

MCExtensions ==
  {Ext("x-other", NoParams), Ext(PMD, CMWB :> 9), Ext(PMD, CMWB :> 12), Ext(PMD, SMWB :> 9),
   Ext(PMD, SMWB :> 15), Ext(PMD, CMWB :> -1), Ext(PMD, (CMWB :> 0) @@ (SNCT :> 0)),
   Ext(PMD, CNCT :> 0), Ext(PMD, CMWB :> 8)}
=============================================================================
