SPECIFICATION Spec
CONSTANTS
    r1 = r1
    r2 = r2
    far1 = far1
    far2 = far2
    near = near
    adm1 = adm1
    adm2 = adm2
    AdmNet = AdmNet
    None = None
    RealHosts = {r1, r2}
    Links <- RemoteAndLocal
    AdmLinks <- AdmBoth
    At <- AtMixed
    NWorkers = 1
    MaxErrors = 2
INVARIANTS
    LinksIsolated
    LinksJoined
    OneTunnel
