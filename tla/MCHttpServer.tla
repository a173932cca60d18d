---- MODULE MCHttpServer ----
(***************************************************************************)
(* The instance of HttpServer that is model-checked.                       *)
(***************************************************************************)
EXTENDS HttpServer

MCRequest == {[target |-> "root", ref |-> "none"], [target |-> "file", ref |-> "none"],
              [target |-> "file", ref |-> "gone"], [target |-> "missing", ref |-> "none"]}

====
