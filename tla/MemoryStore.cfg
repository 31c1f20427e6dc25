SPECIFICATION Spec
CONSTANTS
    job = job
    home = home
    pet = pet
    Facts = {job, home, pet}
    Stable = {job, home}
    Preference = {}
    Named = {job, pet}
    Similar <- MCSimilar
    Threads = {t1, t2}
    Cap = 1
    CoreCap = 1
    MaxNew = 2
SYMMETRY ThreadSymmetry
INVARIANTS
    TypeOK
    CoreIsAnchor
PROPERTIES
    AnchorsOutliveIngest
    GrowthWithinCap
    
