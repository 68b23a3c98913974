---------------------------- MODULE MCTenantPool ----------------------------
(* The tenant pool on small instances. *)
EXTENDS TenantPool

CONSTANTS t1, t2, c1, c2, h1, h2

MCTenants == {t1, t2}

MCZero == {t1}

MCExisting == {t2}

MCCallers == {c1, c2}

MCHandles == {h1, h2}
=============================================================================
