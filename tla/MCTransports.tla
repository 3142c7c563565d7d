---------------------------- MODULE MCTransports ----------------------------
(* Transports on small instances: one record per kind of launch.           *)
EXTENDS Transports

Launch(class, resumes, permission, bounds) ==
    [kind |-> class, wants |-> resumes, policy |-> permission,
     texts |-> bounds[1], sends |-> bounds[2], perms |-> bounds[3],
     stops |-> bounds[4], pipe |-> bounds[5]]

\* A bound that is large in one launch is small in the others: the cases that
\* need a deep queue, two commands in flight or a chain of stops are apart.
MCLaunches ==
    {Launch("agy", TRUE, "deny", <<3, 0, 0, 1, 2>>),
     Launch("agy", FALSE, "deny", <<1, 0, 0, 2, 1>>),
     Launch("hermes", TRUE, "deny", <<2, 0, 1, 1, 1>>),
     Launch("hermes", FALSE, "interactive", <<1, 0, 1, 2, 1>>),
     Launch("omp", FALSE, "deny", <<0, 2, 0, 0, 2>>),
     Launch("omp", TRUE, "deny", <<0, 0, 0, 1, 2>>),
     Launch("pi", TRUE, "deny", <<0, 1, 0, 1, 1>>),
     Launch("pi", FALSE, "deny", <<0, 0, 0, 2, 1>>)}
=============================================================================
