----------------------------- MODULE MCService -----------------------------
(* Service with a few things that an environment or a file may say.         *)
EXTENDS Service, TLC

Address  == "external_ip" :> "ip"
Login    == "users_file" :> "users" @@ "secret" :> "s"

\* Of the timeouts one is shorter than the codec's limit, and one is longer.
MCSeconds == "0" :> 0 @@ "short" :> 1 @@ "long" :> 3 @@ "negative" :> -1

MCContents ==
    { << >>,
      Address,
      "external_ip" :> "" @@ "secret" :> "",
      Address @@ Login,
      "users_file" :> "users" @@ "session_timeout" :> "short",
      "session_timeout" :> "negative",
      "session_timeout" :> "long" @@ "secret" :> "t",
      "turn_external_ip" :> "ip",
      "turn_external_ip" :> "ip" @@ "turn_external_secret" :> "x",
      "external_ip" :> "bad",
      "server_tls" :> "true" @@ "tls_cert_file" :> "c",
      "tls_key_file" :> "k" @@ "turn_port_range" :> "narrow",
      "server_tls" :> "",
      "users_file" :> "missing",
      "auth_mode" :> "" @@ "turn_deny_peers" :> "bad" }
=============================================================================
