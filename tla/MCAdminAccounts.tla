--------------------------- MODULE MCAdminAccounts ---------------------------
(***************************************************************************)
(* The requests the instances try: each field patched alone, and the       *)
(* combinations that a handler checks together.                            *)
(***************************************************************************)
EXTENDS AdminAccounts, TLC

Symmetry == Permutations(Clients) \cup Permutations(Orgs)
            \cup Permutations(Accounts) \cup Permutations(Requests)

Created == {[status |-> "active", roles |-> {"application_admin"}],
            [status |-> "disabled", roles |-> {"system_admin"}]}

Patch(e, s, r) == [email |-> e, status |-> s, roles |-> r]
Patched ==
    {Patch(None, s, None) : s \in Statuses}
        \cup {Patch(None, None, r) : r \in {{}, {"system_admin"}}}
        \cup {Patch(StartupEmail, None, None)}

OrgPatch(n, d, u) == [number |-> n, dept |-> d, use |-> u]
Moved ==
    {OrgPatch(n, None, None) : n \in Numbers}
        \cup {OrgPatch(None, d, None) : d \in Depts}
        \cup {OrgPatch(None, None, "Y")}
=============================================================================
