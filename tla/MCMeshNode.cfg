SPECIFICATION FairSpec
CONSTANTS
  Tailscale = Tailscale
  NetBird = NetBird
  ts = ts
  nb = nb
  Kinds = {Tailscale, NetBird}
  Secrets = {ts, nb}
  KindOf <- MCKindOf
  Lingers = {Tailscale}
  Calls = {t1, t2, t3}
  None = None
INVARIANTS TypeOK OneMesh OneNodePerSecret
PROPERTIES CallsReturn
