\* A target that is linked, one that is copied and the canonical source: one
\* of them with a user who edits at any moment, or two and nobody edits.  Any
\* command may crash and any save may fail.
SPECIFICATION MCSpec
CONSTANTS
  Targets = {t1, t2, t3}
  Slots = {b1, b2}
  UserDirs = {u1, u2}
  SceneDirs = {s1}
  UserLinks = {l1}
  SceneLink = SceneLink
  Nil = Nil
  CopyWriters = {t3}
  Source = t2
  MaxDrift = 2
SYMMETRY Symmetric
INVARIANT SceneOutputHasAuthority AlwaysClearable
PROPERTY UserContentSurvives DroppedOnlyWhenRestored FirstBaselineStands ProjectionOutlivesItsUsers BaselineSurvivesUndisturbed
