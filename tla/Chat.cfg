SPECIFICATION Spec
CONSTANTS
    u1 = u1  u2 = u2  c1 = c1  c2 = c2  c3 = c3  s1 = s1  s2 = s2
    Users = {u1, u2}
    Clients = {c1, c2, c3}
    Servers = {s1, s2}
    Groups = {"g"}
    Worlds <- AllWorlds
INVARIANTS RowsAgree AtMostOnce
PROPERTIES WaitsEnd
CHECK_DEADLOCK FALSE
