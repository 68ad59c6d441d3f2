------------------------------- MODULE MCSignIn -------------------------------
(***************************************************************************)
(* Two accounts, two replicas, two flows and two callbacks, under the       *)
(* configurations of the deployments: the cluster's, a development build    *)
(* behind https and a local one with demo access.  The last, of a           *)
(* production image without NEXTAUTH_URL, has two session cookies.          *)
(***************************************************************************)
EXTENDS SignIn, TLC

Cluster == [nextAuthUrl |-> "https", webUrl |-> "https", production |-> TRUE,
            google |-> TRUE, github |-> FALSE, demo |-> FALSE]
Proxied == [Cluster EXCEPT !.production = FALSE, !.github = TRUE]
Local == [nextAuthUrl |-> "http", webUrl |-> "http", production |-> FALSE,
          google |-> FALSE, github |-> TRUE, demo |-> TRUE]
Image == [Local EXCEPT !.production = TRUE]

MCConfigs == {Cluster, Proxied, Local, Image}
=============================================================================
